---- MODULE Spec2Model ----
(***************************************************************************)
(* A model of the mini-React runtime of packages/react/src/core: the DOM   *)
(* helpers (dom.ts), path assignment and hooks (elements.ts), the          *)
(* reconciler, the effect flush and the render pass (reconciler.ts) and    *)
(* the root controller setup (unnamed/part_000).                           *)
(*                                                                         *)
(* Representation.  JavaScript values of different types are never         *)
(* compared by the model, so every nullable value is a tagged value:       *)
(*   DOM handle      a positive integer, NullDom (0) for null              *)
(*   VNode           [type, key, props], NullNode for null                 *)
(*   VNode type      [kind, name, id]: kind "text" (TEXT_ELEMENT),         *)
(*                   "fragment" (Fragment), "host" (a tag name) or "fn"    *)
(*                   (a component function; id is the function reference)  *)
(*   key             <<k>> for the key k, NullKey (<<>>) for null          *)
(*   Instance        [kind, dom, node, children, key, path],               *)
(*                   NullInst for null                                     *)
(*   hook slot       [kind |-> "value", value] for a state cell,           *)
(*                   [kind |-> "effect", deps, cleanup, effect]            *)
(*   deps            [list |-> <<...>>], NullDeps for undefined/null       *)
(***************************************************************************)
EXTENDS Integers, Sequences, FiniteSets, TLC

VARIABLES
  dom,         \* the heap of DOM nodes: handle -> node
  nextId,      \* the next unused DOM handle
  context,     \* the singleton of ./context: root, hooks, effects
  setters,     \* the setState closures handed out by useState: <<path, cursor>>
  microtasks,  \* the microtask queue: "render" and "flush" callbacks, in order
  scheduled,   \* the flag of withEnqueue(render)
  memo,        \* the cache variable of each memo(...) closure, with the
               \* observer's note of the wrapped component's last invocation
  fx,          \* observer: per live effect slot, how often it ran / was cleaned
  turn,        \* observer: the updater calls made since the last render pass,
               \*           and whether one of them wrote a slot
  last         \* observer: what the last operation did

vars == <<dom, nextId, context, setters, microtasks, scheduled, memo, fx, turn, last>>

----------------------------------------------------------------------------
(* Bounds of the model *)

\* the largest value a state cell takes (values are 0..MaxVal)
MaxVal == 2
\* the largest DOM handle created
MaxAlloc == 7

----------------------------------------------------------------------------
(* Null values *)

NullDom == 0
NullKey == << >>
NullNode == [null |-> "node"]
NullInst == [null |-> "instance"]
NullDeps == [null |-> "deps"]
NullFn == [null |-> "fn"]

(* Sequence helpers *)

Last(s) == s[Len(s)]
Front(s) == SubSeq(s, 1, Len(s) - 1)
Range(s) == {s[i] : i \in 1..Len(s)}
IndexOf(s, x) == IF \E i \in 1..Len(s) : s[i] = x
                 THEN CHOOSE i \in 1..Len(s) : s[i] = x /\ \A j \in 1..(i - 1) : s[j] # x
                 ELSE 0
Without(s, x) == SelectSeq(s, LAMBDA y : y # x)
Count(s, x) == Cardinality({i \in 1..Len(s) : s[i] = x})

RECURSIVE Flatten(_)
Flatten(ss) == IF ss = << >> THEN << >> ELSE Head(ss) \o Flatten(Tail(ss))

----------------------------------------------------------------------------
(* The host surface: the DOM operations the core calls *)

\* document.createElement(tag): a detached element
NewElement(tag) ==
  [nodeType |-> "element", tag |-> tag, text |-> "", attrs |-> << >>,
   listeners |-> {}, children |-> << >>, parent |-> NullDom,
   props |-> << >>, style |-> << >>, log |-> << >>]

\* document.createTextNode(value): a detached text node
NewText(value) ==
  [nodeType |-> "text", tag |-> "#text", text |-> value, attrs |-> << >>,
   listeners |-> {}, children |-> << >>, parent |-> NullDom,
   props |-> << >>, style |-> << >>, log |-> << >>]

\* dom instanceof HTMLElement / Element
IsElement(d, h) == h # NullDom /\ h \in DOMAIN d /\ d[h].nodeType = "element"

\* dom instanceof Text
IsText(d, h) == h # NullDom /\ h \in DOMAIN d /\ d[h].nodeType = "text"

\* node.parentNode.removeChild(node)
removeChild(d, parent, node) ==
  [d EXCEPT ![parent].children = Without(@, node), ![node].parent = NullDom]

\* a node is taken out of the parent it has before it is inserted elsewhere
Detached(d, node) ==
  IF d[node].parent # NullDom THEN removeChild(d, d[node].parent, node) ELSE d

\* parentDom.appendChild(node)
appendChild(d, parent, node) ==
  LET d1 == Detached(d, node)
  IN [d1 EXCEPT ![parent].children = Append(@, node), ![node].parent = parent]

\* parentDom.insertBefore(node, anchor)
insertBefore(d, parent, node, anchor) ==
  LET d1 == Detached(d, node)
      cs == d1[parent].children
      i == IndexOf(cs, anchor)
  IN IF i = 0
     THEN appendChild(d, parent, node)
     ELSE [d1 EXCEPT ![parent].children = SubSeq(cs, 1, i - 1) \o <<node>> \o SubSeq(cs, i, Len(cs)),
                     ![node].parent = parent]

\* container.replaceChildren(): every child is detached
replaceChildren(d, container) ==
  [h \in DOMAIN d |->
     IF h = container THEN [d[h] EXCEPT !.children = << >>]
     ELSE IF d[h].parent = container THEN [d[h] EXCEPT !.parent = NullDom]
     ELSE d[h]]

----------------------------------------------------------------------------
(* Maps: a JavaScript Map is a sequence of [key, value] entries in         *)
(* insertion order                                                         *)

MapHas(m, k) == \E i \in 1..Len(m) : m[i].key = k
MapIndex(m, k) == CHOOSE i \in 1..Len(m) : m[i].key = k
MapGet(m, k) == m[MapIndex(m, k)].value
MapSet(m, k, v) ==
  IF MapHas(m, k) THEN [m EXCEPT ![MapIndex(m, k)].value = v]
  ELSE Append(m, [key |-> k, value |-> v])
MapDelete(m, k) == SelectSeq(m, LAMBDA e : e.key # k)
MapKeys(m) == {m[i].key : i \in 1..Len(m)}

(* Plain objects are functions from their own keys *)

Put(f, k, v) == [x \in DOMAIN f \cup {k} |-> IF x = k THEN v ELSE f[x]]
Drop(f, ks) == [x \in DOMAIN f \ ks |-> f[x]]

----------------------------------------------------------------------------
(* utils: equality *)

\* the encoding of the JavaScript value undefined among primitive values
Undefined == -1

\* the one element of a set; the result of a call is bound once to a name
\* as Only({... r ... : r \in {call}})
Only(S) == CHOOSE x \in S : TRUE

\* Object.is on primitive values
ObjectIs(x, y) == x = y

\* b?.[key]: the value of an absent key is undefined
Lookup(b, key) == IF key \in DOMAIN b THEN b[key] ELSE Undefined

\* shallowEquals comparing the numbers of entries only
shallowEqualsLengthOnly(a, b) == Cardinality(DOMAIN a) = Cardinality(DOMAIN b)

\* shallowEquals of two objects (arrays or plain objects) that are not the
\* same reference: as many entries, and every entry of a is Object.is-equal
\* to b's value under the same key
shallowEquals(a, b) ==
  /\ Cardinality(DOMAIN a) = Cardinality(DOMAIN b)
  /\ \A key \in DOMAIN a : ObjectIs(a[key], Lookup(b, key))

----------------------------------------------------------------------------
(* VNodes *)

\* JavaScript values: numbers, strings, null and undefined, and functions,
\* objects and arrays, each with a reference identity: two arrays of equal
\* contents are two values
Num(n) == [t |-> "num", n |-> n]
Str(x) == [t |-> "str", s |-> x]
Fn(id) == [t |-> "fn", id |-> id]
Obj(id, entries) == [t |-> "obj", id |-> id, entries |-> entries]
JsNull == [t |-> "null"]
JsUndefined == [t |-> "undefined"]
Bool(b) == [t |-> "bool", b |-> b]
Arr(id, items) == [t |-> "array", id |-> id, items |-> items]

TEXT_ELEMENT == [kind |-> "text", name |-> "TEXT_ELEMENT", id |-> 0]
Fragment == [kind |-> "fragment", name |-> "Fragment", id |-> 0]
HostType(tag) == [kind |-> "host", name |-> tag, id |-> 0]
FnType(name, id) == [kind |-> "fn", name |-> name, id |-> id]

\* typeof type === "function"
IsFunction(type) == type.kind = "fn"

\* props?.children || []
ChildrenOf(props) == IF "children" \in DOMAIN props THEN props.children ELSE << >>

\* String(node) of a string or a number
String(node) == IF node.t = "num" THEN ToString(node.n) ELSE node.s

createTextElement(node) ==
  [type |-> TEXT_ELEMENT, key |-> NullKey,
   props |-> [children |-> << >>, nodeValue |-> String(node)]]

\* a VNode of children already normalised by createElement
VNode(type, key, props, children) ==
  [type |-> type, key |-> key, props |-> Put(props, "children", children)]

EmptyProps == << >>

\* a value that is a VNode, not a primitive or an array
IsVNode(node) == "type" \in DOMAIN node

\* isEmptyValue(node): null, undefined and booleans render nothing
isEmptyValue(node) ==
  /\ ~IsVNode(node)
  /\ node.t \in {"null", "undefined", "bool"}

\* the outcome of reading node.props.children of an array, which has no props
TypeError == [t |-> "TypeError"]

\* normalizeNode(node); null is NullNode
normalizeNode(node) ==
  IF isEmptyValue(node) THEN NullNode
  ELSE IF IsVNode(node) THEN node
  ELSE IF node.t \in {"str", "num"} THEN createTextElement(node)
  ELSE IF node.t = "array" THEN TypeError
  ELSE node

\* .flat(1): the mutation of flat that opens one level of arrays only
flatOnce(items) ==
  IF items = << >> THEN << >>
  ELSE Flatten([i \in 1..Len(items) |->
                  IF ~IsVNode(items[i]) /\ items[i].t = "array"
                  THEN items[i].items ELSE <<items[i]>>])

\* rawChildren.flat(Infinity)
RECURSIVE flat(_)
flat(items) ==
  IF items = << >> THEN << >>
  ELSE LET Rest(tail) ==
             IF ~IsVNode(Head(items)) /\ Head(items).t = "array"
             THEN flat(Head(items).items) \o tail
             ELSE <<Head(items)>> \o tail
       IN Rest(flat(Tail(items)))

\* .map(normalizeNode)
mapNormalize(items) == [i \in 1..Len(items) |-> normalizeNode(items[i])]

\* .filter((child) => child !== null)
filterNotNull(items) == SelectSeq(items, LAMBDA child : child # NullNode)

\* the key field of a VNode holds the key value itself
KeyValue(v) == IF v.t = "num" THEN v.n ELSE v.s

\* originProps?.key ?? null
KeyOfProps(originProps) ==
  IF originProps \in {JsNull, JsUndefined} THEN NullKey
  ELSE IF "key" \notin DOMAIN originProps THEN NullKey
  ELSE IF originProps.key \in {JsNull, JsUndefined} THEN NullKey
  ELSE <<KeyValue(originProps.key)>>

\* for (const prop in originProps) if (prop !== "key") props[prop] = ...
CopyProps(originProps) ==
  IF originProps \in {JsNull, JsUndefined} THEN EmptyProps
  ELSE [prop \in DOMAIN originProps \ {"key"} |-> originProps[prop]]

createElement(type, originProps, rawChildren) ==
  [type |-> type,
   key |-> KeyOfProps(originProps),
   props |-> IF Len(rawChildren) > 0
             THEN Put(CopyProps(originProps), "children",
                      filterNotNull(mapNormalize(flat(rawChildren))))
             ELSE CopyProps(originProps)]

\* `${parentPath}.k${key}`, `${parentPath}.c${componentName}_${typeCount}`,
\* `${parentPath}.i${index}`; index counts from 0, siblings is the VNode list
createChildPath(parentPath, key, index, nodeType, siblings) ==
  IF key # NullKey THEN parentPath \o ".k" \o key[1]
  ELSE IF IsFunction(nodeType)
  THEN LET componentName == IF nodeType.name # "" THEN nodeType.name ELSE "Component"
           typeCount == Cardinality({i \in 0..(index - 1) :
                                       i < Len(siblings) /\ siblings[i + 1].type = nodeType})
       IN parentPath \o ".c" \o componentName \o "_" \o ToString(typeCount)
  ELSE parentPath \o ".i" \o ToString(index)

----------------------------------------------------------------------------
(* dom.ts *)

\* if (value): everything but null, undefined, false, 0 and ""
Truthy(v) ==
  \/ v.t \in {"fn", "obj", "array"}
  \/ v.t = "bool" /\ v.b
  \/ v.t = "num" /\ v.n # 0
  \/ v.t = "str" /\ v.s # ""

\* typeof value === "object": objects, arrays, and null
TypeofObject(v) == v.t \in {"obj", "array", "null"}

\* prevValue === nextValue
StrictEquals(x, y) == x = y

\* props[key]: undefined for a key the object does not have
PropOf(props, key) == IF key \in DOMAIN props THEN props[key] ELSE JsUndefined

\* key.startsWith("on")
IsEventKey(key) == Len(key) >= 2 /\ SubSeq(key, 1, 2) = "on"

\* the event names of the handler keys the model uses:
\* key.slice(2).toLowerCase()
EventName(key) ==
  CASE key = "onClick" -> "click"
    [] key = "onInput" -> "input"
    [] OTHER -> SubSeq(key, 3, Len(key))

PropKeys(props) == DOMAIN props \ {"children"}

\* className is applied as the attribute class
AttrName(key) == IF key = "className" THEN "class" ELSE key

\* key in dom: the keys that are properties of an element handle
IsDomProperty(key) == key \in {"id", "style", "className", "value", "checked", "disabled"}

\* Object.keys(object): the keys in the order they were written, which for
\* the objects of the model is the order of this list
KeyOrder == <<"a", "onClick", "children", "style", "b", "c", "className", "id", "onInput",
              "color", "width">>
ObjectKeys(object) == SelectSeq(KeyOrder, LAMBDA k : k \in DOMAIN object)

\* Object.keys(value) of an object or an array, whose keys are its indices
KeysOfValue(value) ==
  IF value.t = "array" THEN [i \in 1..Len(value.items) |-> ToString(i - 1)]
  ELSE ObjectKeys(value.entries)

\* value[key] of an object or an array
EntryOfValue(value, key) ==
  IF value.t = "array"
  THEN value.items[CHOOSE i \in 1..Len(value.items) : ToString(i - 1) = key]
  ELSE value.entries[key]

\* the calls made on a handle are noted, per prop key, in the handle's log
Logged(n, key, entry) ==
  [n EXCEPT !.log = Put(@, key, (IF key \in DOMAIN @ THEN @[key] ELSE << >>) \o <<entry>>)]

\* dom.addEventListener(eventName, value): a value that is no function is ignored
addEventListener(n, key, value) ==
  Logged([n EXCEPT !.listeners = IF value.t = "fn" THEN @ \cup {<<EventName(key), value>>} ELSE @],
         key, [op |-> "addEventListener", name |-> EventName(key), value |-> value])

\* dom.removeEventListener(eventName, value)
removeEventListener(n, key, value) ==
  Logged([n EXCEPT !.listeners = @ \ {<<EventName(key), value>>}],
         key, [op |-> "removeEventListener", name |-> EventName(key), value |-> value])

\* dom.setAttribute(name, value)
setAttribute(n, key, value) ==
  Logged([n EXCEPT !.attrs = Put(@, AttrName(key), value)],
         key, [op |-> "setAttribute", name |-> AttrName(key), value |-> value])

\* dom.removeAttribute(name)
removeAttribute(n, key) ==
  Logged([n EXCEPT !.attrs = Drop(@, {AttrName(key)})],
         key, [op |-> "removeAttribute", name |-> AttrName(key)])

\* dom[key] = value
setProperty(n, key, value) ==
  Logged([n EXCEPT !.props = Put(@, key, value)],
         key, [op |-> "setProperty", name |-> key, value |-> value])

\* dom.style[styleKey] = value
setStyle(n, key, styleKey, value) ==
  Logged([n EXCEPT !.style = Put(@, styleKey, value)],
         key, [op |-> "setStyle", name |-> styleKey, value |-> value])

\* a TypeError leaves the handle as it is and ends the call
Thrown(acc) == [acc EXCEPT !.threw = TRUE]

\* Object.keys(value).forEach((styleKey) => dom.style[styleKey] = value[styleKey])
RECURSIVE assignStyles(_, _, _, _)
assignStyles(n, key, value, styleKeys) ==
  IF styleKeys = << >> THEN n
  ELSE assignStyles(setStyle(n, key, Head(styleKeys), EntryOfValue(value, Head(styleKeys))),
                    key, value, Tail(styleKeys))

\* Object.keys(prevValue).forEach((styleKey) => ... dom.style[styleKey] = ""),
\* for the style keys not in `kept`
RECURSIVE clearStyles(_, _, _, _)
clearStyles(n, key, styleKeys, kept) ==
  IF styleKeys = << >> THEN n
  ELSE clearStyles(IF Head(styleKeys) \in kept THEN n
                   ELSE setStyle(n, key, Head(styleKeys), Str("")),
                   key, Tail(styleKeys), kept)

\* dom.ts 28-53: one key of setDomProps; Object.keys(null) throws
setOneProp(acc, key, value) ==
  IF key = "children" THEN acc
  ELSE IF IsEventKey(key) THEN [acc EXCEPT !.n = addEventListener(@, key, value)]
  ELSE IF key = "className" THEN [acc EXCEPT !.n = setAttribute(@, key, value)]
  ELSE IF key = "style" /\ TypeofObject(value)
  THEN IF value = JsNull THEN Thrown(acc)
       ELSE [acc EXCEPT !.n = assignStyles(@, key, value, KeysOfValue(value))]
  ELSE IF IsDomProperty(key) THEN [acc EXCEPT !.n = setProperty(@, key, value)]
  ELSE [acc EXCEPT !.n = setAttribute(@, key, value)]

RECURSIVE setAllProps(_, _, _)
setAllProps(acc, keys, props) ==
  IF keys = << >> \/ acc.threw THEN acc
  ELSE setAllProps(setOneProp(acc, Head(keys), props[Head(keys)]), Tail(keys), props)

\* setDomProps on a handle: the handle afterwards and whether the call threw
setDomPropsOn(n, props) ==
  setAllProps([n |-> n, threw |-> FALSE], ObjectKeys(props), props)

\* setDomProps(dom, props): the heap afterwards and whether the call threw;
\* a handle that is no element, or no props, changes nothing
setDomProps(d, h, props) ==
  IF ~IsElement(d, h) THEN [d |-> d, threw |-> FALSE]
  ELSE LET Return(r) == [d |-> [d EXCEPT ![h] = r.n], threw |-> r.threw]
       IN Return(setDomPropsOn(d[h], props))

\* dom.ts 82-110: one previous key of updateDomProps
removeOneProp(acc, key, prevProps, nextProps) ==
  IF key = "children" \/ key \in DOMAIN nextProps THEN acc
  ELSE IF IsEventKey(key) THEN [acc EXCEPT !.n = removeEventListener(@, key, prevProps[key])]
  ELSE IF key = "className" THEN [acc EXCEPT !.n = removeAttribute(@, key)]
  ELSE IF key = "style" /\ TypeofObject(prevProps[key])
  THEN IF prevProps[key] = JsNull THEN Thrown(acc)
       ELSE [acc EXCEPT !.n = clearStyles(@, key, KeysOfValue(prevProps[key]), {})]
  ELSE IF IsDomProperty(key) THEN [acc EXCEPT !.n = setProperty(@, key, JsUndefined)]
  ELSE [acc EXCEPT !.n = removeAttribute(@, key)]

RECURSIVE removePass(_, _, _, _)
removePass(acc, keys, prevProps, nextProps) ==
  IF keys = << >> \/ acc.threw THEN acc
  ELSE removePass(removeOneProp(acc, Head(keys), prevProps, nextProps),
                  Tail(keys), prevProps, nextProps)

\* dom.ts 120-129: a handler that changed
\* an update of a handler that adds the new listener and leaves the old one
updateListenerAddOnly(n, key, prevValue, nextValue) ==
  IF Truthy(nextValue) THEN addEventListener(n, key, nextValue) ELSE n

updateListener(n, key, prevValue, nextValue) ==
  LET Added(n1) == IF Truthy(nextValue) THEN addEventListener(n1, key, nextValue) ELSE n1
  IN Added(IF Truthy(prevValue) THEN removeEventListener(n, key, prevValue) ELSE n)

\* dom.ts 134-149: a style object that changed; `styleKey in null` and
\* Object.keys(null) throw
updateStyle(acc, key, prevValue, nextValue) ==
  IF nextValue = JsNull THEN Thrown(acc)
  ELSE LET Assigned(n1) == assignStyles(n1, key, nextValue, KeysOfValue(nextValue))
       IN [acc EXCEPT !.n = Assigned(IF Truthy(prevValue) /\ TypeofObject(prevValue)
                                     THEN clearStyles(@, key, KeysOfValue(prevValue),
                                                      Range(KeysOfValue(nextValue)))
                                     ELSE @)]

\* dom.ts 113-159: one next key of updateDomProps
updateOneProp(acc, key, prevValue, nextValue) ==
  IF key = "children" \/ StrictEquals(prevValue, nextValue) THEN acc
  ELSE IF IsEventKey(key) THEN [acc EXCEPT !.n = updateListener(@, key, prevValue, nextValue)]
  ELSE IF key = "className" THEN [acc EXCEPT !.n = setAttribute(@, key, nextValue)]
  ELSE IF key = "style" /\ TypeofObject(nextValue) THEN updateStyle(acc, key, prevValue, nextValue)
  ELSE IF IsDomProperty(key) THEN [acc EXCEPT !.n = setProperty(@, key, nextValue)]
  ELSE [acc EXCEPT !.n = setAttribute(@, key, nextValue)]

RECURSIVE updatePass(_, _, _, _)
updatePass(acc, keys, prevProps, nextProps) ==
  IF keys = << >> \/ acc.threw THEN acc
  ELSE updatePass(updateOneProp(acc, Head(keys), PropOf(prevProps, Head(keys)),
                                nextProps[Head(keys)]),
                  Tail(keys), prevProps, nextProps)

\* updateDomProps on a handle: the handle afterwards and whether the call
\* threw (the catch block logs the error and throws it again)
updateDomPropsOn(n, prevProps, nextProps) ==
  updatePass(removePass([n |-> n, threw |-> FALSE], ObjectKeys(prevProps), prevProps, nextProps),
             ObjectKeys(nextProps), prevProps, nextProps)

\* updateDomProps(dom, prevProps, nextProps): the heap afterwards and
\* whether the call threw
updateDomProps(d, h, prevProps, nextProps) ==
  IF ~IsElement(d, h) THEN [d |-> d, threw |-> FALSE]
  ELSE LET Return(r) == [d |-> [d EXCEPT ![h] = r.n], threw |-> r.threw]
       IN Return(updateDomPropsOn(d[h], prevProps, nextProps))

RECURSIVE getDomNodes(_)
getDomNodes(instance) ==
  IF instance = NullInst THEN << >>
  ELSE IF instance.kind \in {"fragment", "component"}
  THEN Flatten([i \in 1..Len(instance.children) |-> getDomNodes(instance.children[i])])
  ELSE IF instance.dom # NullDom THEN <<instance.dom>>
  ELSE << >>

RECURSIVE getFirstDom(_)
RECURSIVE FirstDomOf(_)

\* the loop shared by getFirstDom and getFirstDomFromChildren: the first
\* child, in order, that has a DOM node
FirstDomOf(children) ==
  IF children = << >> THEN NullDom
  ELSE LET first == getFirstDom(Head(children))
       IN IF first # NullDom THEN first ELSE FirstDomOf(Tail(children))

getFirstDom(instance) ==
  IF instance = NullInst THEN NullDom
  ELSE IF instance.dom # NullDom THEN instance.dom
  ELSE FirstDomOf(instance.children)

\* a search that looks at the first child only
getFirstDomFromFirstChild(children) ==
  IF children = << >> THEN NullDom ELSE getFirstDom(Head(children))

getFirstDomFromChildren(children) == FirstDomOf(children)

RECURSIVE AppendAll(_, _, _)
AppendAll(d, parentDom, nodes) ==
  IF nodes = << >> THEN d
  ELSE AppendAll(appendChild(d, parentDom, Head(nodes)), parentDom, Tail(nodes))

RECURSIVE InsertAllBefore(_, _, _, _)
InsertAllBefore(d, parentDom, nodes, anchor) ==
  IF nodes = << >> THEN d
  ELSE InsertAllBefore(insertBefore(d, parentDom, Head(nodes), anchor), parentDom, Tail(nodes), anchor)

insertInstance(d, parentDom, instance, anchor) ==
  IF instance = NullInst THEN d
  ELSE LET domNodes == getDomNodes(instance)
       IN IF anchor # NullDom THEN InsertAllBefore(d, parentDom, domNodes, anchor)
          ELSE AppendAll(d, parentDom, domNodes)

RECURSIVE RemoveAll(_, _)
RemoveAll(d, nodes) ==
  IF nodes = << >> THEN d
  ELSE LET node == Head(nodes)
       IN RemoveAll(IF d[node].parent # NullDom THEN removeChild(d, d[node].parent, node) ELSE d,
                    Tail(nodes))

\* a removal that detaches the first DOM node of the instance only
removeInstanceFirstOnly(d, parentDom, instance) ==
  IF instance = NullInst \/ getDomNodes(instance) = << >> THEN d
  ELSE RemoveAll(d, <<Head(getDomNodes(instance))>>)

removeInstance(d, parentDom, instance) ==
  IF instance = NullInst THEN d ELSE RemoveAll(d, getDomNodes(instance))

----------------------------------------------------------------------------
(* The world an operation runs in: every piece of mutable state, threaded  *)
(* through the operators that model the functions of the source            *)

World == [dom |-> dom, nextId |-> nextId, context |-> context, setters |-> setters,
          microtasks |-> microtasks, scheduled |-> scheduled, memo |-> memo,
          fx |-> fx, turn |-> turn, last |-> last]

\* the observer's record of one operation: the effects it ran, the cleanups
\* it called, the queue entries it pushed, the render passes it made, whether
\* it wrote a state cell, whether it threw, the updater call it was, the
\* calls of memoised components it made, what a flush did entry by entry,
\* whether it called a functional updater, and the useMemo slots whose
\* factory it called
NoCall == [null |-> "call"]
Quiet(op) == [op |-> op, ran |-> << >>, cleaned |-> << >>, pushed |-> << >>,
              renders |-> 0, wrote |-> FALSE, threw |-> FALSE, call |-> NoCall,
              memoized |-> << >>, events |-> << >>, applied |-> FALSE,
              computed |-> << >>]
NoCalls == [called |-> FALSE, wrote |-> FALSE]

\* the observer's count of an effect slot: 0, 1 or 2 for "more than once"
Sat(n) == IF n >= 2 THEN 2 ELSE n + 1
FxOf(f, slot) == IF slot \in DOMAIN f THEN f[slot] ELSE [runs |-> 0, cleanups |-> 0]
FxRan(f, slot) == Put(f, slot, [FxOf(f, slot) EXCEPT !.runs = Sat(@)])
FxCleaned(f, slot) == Put(f, slot, [FxOf(f, slot) EXCEPT !.cleanups = Sat(@)])
FxForget(f, paths) == [slot \in {x \in DOMAIN f : x[1] \notin paths} |-> f[slot]]

----------------------------------------------------------------------------
(* ./context and ../utils (enqueue, withEnqueue) *)

EmptyContext ==
  [root |-> [container |-> NullDom, node |-> NullNode, instance |-> NullInst],
   hooks |-> [state |-> << >>, cursor |-> << >>, visited |-> {}, componentStack |-> << >>],
   effects |-> [queue |-> << >>]]

\* context.root.reset({ container, node })
rootReset(ctx, container, node) ==
  [ctx EXCEPT !.root = [container |-> container, node |-> node, instance |-> NullInst]]

\* context.hooks.clear(): cursor, visited and componentStack
hooksClear(ctx) ==
  [ctx EXCEPT !.hooks.cursor = << >>, !.hooks.visited = {}, !.hooks.componentStack = << >>]

currentPath(ctx) == Last(ctx.hooks.componentStack)

currentCursor(ctx) ==
  IF currentPath(ctx) \in DOMAIN ctx.hooks.cursor THEN ctx.hooks.cursor[currentPath(ctx)] ELSE 0

currentHooks(ctx) ==
  IF MapHas(ctx.hooks.state, currentPath(ctx)) THEN MapGet(ctx.hooks.state, currentPath(ctx))
  ELSE << >>

\* enqueue(callback): queueMicrotask
enqueue(w, callback) == [w EXCEPT !.microtasks = Append(@, callback)]

\* enqueueRender = withEnqueue(render): render is queued once until it has run
enqueueRender(w) ==
  IF w.scheduled THEN w ELSE [enqueue(w, "render") EXCEPT !.scheduled = TRUE]

----------------------------------------------------------------------------
(* hooks: elements.ts 121-261 *)

UndefinedSlot == [kind |-> "undefined"]
ValueSlot(v) == [kind |-> "value", value |-> v]
NaNSlot == [kind |-> "nan"]

\* hooks[cursor], undefined beyond the end of the array
SlotAt(hooks, cursor) == IF cursor + 1 <= Len(hooks) THEN hooks[cursor + 1] ELSE UndefinedSlot

\* hooks[cursor] = slot
SlotPut(hooks, cursor, slot) ==
  [i \in 1..(IF cursor + 1 > Len(hooks) THEN cursor + 1 ELSE Len(hooks)) |->
     IF i = cursor + 1 THEN slot
     ELSE IF i <= Len(hooks) THEN hooks[i] ELSE UndefinedSlot]

\* !value for a hook slot
Falsy(slot) == slot.kind \in {"undefined", "nan"} \/ (slot.kind = "value" /\ slot.value = 0)

IsEffectHook(slot) == slot.kind = "effect"

\* the cleanups of the effect slots of one path, in slot order
CleanupsOf(path, hooks) ==
  LET idx == SelectSeq([i \in 1..Len(hooks) |-> i],
                       LAMBDA i : IsEffectHook(hooks[i]) /\ hooks[i].cleanup # NullFn)
  IN [k \in 1..Len(idx) |-> <<path, idx[k] - 1>>]

RECURSIVE FxCleanedAll(_, _)
FxCleanedAll(f, slots) ==
  IF slots = << >> THEN f ELSE FxCleanedAll(FxCleaned(f, Head(slots)), Tail(slots))

\* cleanupUnusedHooks deleting the unused paths without calling a cleanup
cleanupUnusedHooksSilent(w) ==
  LET state == w.context.hooks.state
      visited == w.context.hooks.visited
      unused == SelectSeq(state, LAMBDA e : e.key \notin visited)
  IN [w EXCEPT !.context.hooks.state = SelectSeq(state, LAMBDA e : e.key \in visited),
               !.fx = FxForget(@, {unused[i].key : i \in 1..Len(unused)})]

\* cleanupUnusedHooks calling the cleanups of a path from the last slot to
\* the first
cleanupUnusedHooksReversed(w) ==
  LET state == w.context.hooks.state
      visited == w.context.hooks.visited
      unused == SelectSeq(state, LAMBDA e : e.key \notin visited)
      Reversed(q) == [i \in 1..Len(q) |-> q[Len(q) + 1 - i]]
      called == Flatten([i \in 1..Len(unused) |->
                           Reversed(CleanupsOf(unused[i].key, unused[i].value))])
  IN [w EXCEPT !.context.hooks.state = SelectSeq(state, LAMBDA e : e.key \in visited),
               !.last.cleaned = @ \o called,
               !.fx = FxForget(FxCleanedAll(@, called), {unused[i].key : i \in 1..Len(unused)})]

cleanupUnusedHooks(w) ==
  LET state == w.context.hooks.state
      visited == w.context.hooks.visited
      unused == SelectSeq(state, LAMBDA e : e.key \notin visited)
      pathsToCleanup == [i \in 1..Len(unused) |-> unused[i].key]
      called == Flatten([i \in 1..Len(unused) |-> CleanupsOf(unused[i].key, unused[i].value)])
  IN [w EXCEPT !.context.hooks.state = SelectSeq(state, LAMBDA e : e.key \in visited),
               !.last.cleaned = @ \o called,
               !.fx = FxForget(FxCleanedAll(@, called), Range(pathsToCleanup))]

\* the value a functional updater computes: (prev) => prev + 1
ApplyUpdater(f, slot) ==
  IF slot.kind = "value" THEN ValueSlot(slot.value + 1) ELSE NaNSlot

\* a functional updater applied to the initial value instead of the stored one
NewValueFromInitial(nextValue, currentValue) ==
  IF nextValue.kind = "fn" THEN ApplyUpdater(nextValue.f, ValueSlot(0)) ELSE nextValue.slot

\* nextValue is [kind |-> "value", slot] or [kind |-> "fn", f]
NewValue(nextValue, currentValue) ==
  IF nextValue.kind = "fn" THEN ApplyUpdater(nextValue.f, currentValue) ELSE nextValue.slot

\* setState without the Object.is comparison: every call writes and enqueues
setStateAlways(w, capturedPath, capturedCursor, nextValue) ==
  IF ~MapHas(w.context.hooks.state, capturedPath) THEN w
  ELSE
    LET hooks == MapGet(w.context.hooks.state, capturedPath)
        newValue == NewValue(nextValue, SlotAt(hooks, capturedCursor))
    IN enqueueRender(
         [w EXCEPT !.context.hooks.state =
                     MapSet(@, capturedPath, SlotPut(hooks, capturedCursor, newValue)),
                   !.last.wrote = TRUE,
                   !.last.applied = (nextValue.kind = "fn")])

\* setState without the early return: a path without hooks gets new ones
setStateRevives(w, capturedPath, capturedCursor, nextValue) ==
  LET hooks == IF MapHas(w.context.hooks.state, capturedPath)
               THEN MapGet(w.context.hooks.state, capturedPath) ELSE << >>
      currentValue == SlotAt(hooks, capturedCursor)
      newValue == NewValue(nextValue, currentValue)
      called == [w EXCEPT !.last.applied = (nextValue.kind = "fn")]
  IN IF currentValue = newValue THEN called
     ELSE enqueueRender(
            [called EXCEPT !.context.hooks.state =
                             MapSet(@, capturedPath, SlotPut(hooks, capturedCursor, newValue)),
                           !.last.wrote = TRUE])

\* the closure setState of useState, with its captured path and cursor; the
\* observer notes whether nextValue was called as a function
setState(w, capturedPath, capturedCursor, nextValue) ==
  IF ~MapHas(w.context.hooks.state, capturedPath) THEN w
  ELSE
    LET hooks == MapGet(w.context.hooks.state, capturedPath)
        currentValue == SlotAt(hooks, capturedCursor)
        newValue == NewValue(nextValue, currentValue)
        called == [w EXCEPT !.last.applied = (nextValue.kind = "fn")]
    IN IF currentValue = newValue THEN called
       ELSE enqueueRender(
              [called EXCEPT !.context.hooks.state =
                               MapSet(@, capturedPath, SlotPut(hooks, capturedCursor, newValue)),
                             !.last.wrote = TRUE])

\* typeof initialValue === "function" ? initialValue() : initialValue, as the
\* slot it is stored in; initialValue is [kind |-> "value", value] or the
\* function [kind |-> "producer", slot] returning what the slot will hold
InitialSlot(initialValue) ==
  IF initialValue.kind = "producer" THEN initialValue.slot ELSE ValueSlot(initialValue.value)

\* useState(initialValue): the world after the call and the value returned
useState(w, initialValue) ==
  LET ctx == w.context
      path == currentPath(ctx)
      cursor == currentCursor(ctx)
      hooks == currentHooks(ctx)
      first == SlotAt(hooks, cursor).kind = "undefined"
      hooks1 == IF first THEN SlotPut(hooks, cursor, InitialSlot(initialValue)) ELSE hooks
      state1 == IF first THEN MapSet(ctx.hooks.state, path, hooks1) ELSE ctx.hooks.state
  IN [w |-> [w EXCEPT !.context.hooks.state = state1,
                      !.context.hooks.cursor = Put(@, path, cursor + 1),
                      !.setters = @ \cup {<<path, cursor>>}],
      value |-> SlotAt(hooks1, cursor)]

\* prevHook.deps of whatever the slot holds
DepsOf(slot) == IF IsEffectHook(slot) THEN slot.deps ELSE NullDeps

\* the decision of useEffect to schedule the effect
shouldRunEffect(prevHook, deps) ==
  \/ Falsy(prevHook)
  \/ deps = NullDeps
  \/ DepsOf(prevHook) = NullDeps
  \/ ~shallowEquals(DepsOf(prevHook).list, deps.list)

\* useEffect(effect, deps): effect is the closure [ret |-> whether it returns
\* a cleanup], deps is [list |-> <<...>>] or NullDeps
useEffect(w, effect, deps) ==
  LET ctx == w.context
      path == currentPath(ctx)
      cursor == currentCursor(ctx)
      hooks == currentHooks(ctx)
      prevHook == SlotAt(hooks, cursor)
      run == shouldRunEffect(prevHook, deps)
      effectHook == [kind |-> "effect", deps |-> deps,
                     cleanup |-> IF IsEffectHook(prevHook) THEN prevHook.cleanup ELSE NullFn,
                     effect |-> effect]
      entry == [path |-> path, cursor |-> cursor]
  IN [w EXCEPT !.context.hooks.state = MapSet(@, path, SlotPut(hooks, cursor, effectHook)),
               !.context.effects.queue = IF run THEN Append(@, entry) ELSE @,
               !.last.pushed = IF run THEN Append(@, entry) ELSE @,
               !.context.hooks.cursor = Put(@, path, cursor + 1)]

----------------------------------------------------------------------------
(* hooks: useRef, useMemo.ts, useCallback.ts, useAutoCallback.ts *)

\* the object { current } a hook slot holds for useRef
RefSlot(current) == [kind |-> "ref", current |-> current]

\* the functions components make: () => a, closed over the state value a of
\* the render that made it, and (...args) => fnRef.current(...args)
Closure(a) == [t |-> "fn", body |-> "captured", a |-> a]
Wrapper(fnRef) == [t |-> "fn", body |-> "fnRef", path |-> fnRef.path, cursor |-> fnRef.cursor]

\* useRef(initialValue): useState(() => ({ current: initialValue }))[0], the
\* setter is dropped; the result names the slot that holds the object
useRef(w, initialValue) ==
  LET Ref(r) == [w |-> [r.w EXCEPT !.setters = w.setters],
                 path |-> currentPath(w.context), cursor |-> currentCursor(w.context),
                 current |-> r.value.current]
  IN Only({Ref(r) : r \in {useState(w, [kind |-> "producer",
                                          slot |-> RefSlot(initialValue)])}})

\* ref.current = value, on the object the slot holds
RefWrite(w, ref, value) ==
  [w EXCEPT !.context.hooks.state =
              MapSet(@, ref.path, SlotPut(MapGet(@, ref.path), ref.cursor, RefSlot(value)))]

\* ref.current as a later call reads it
RefRead(w, path, cursor) == SlotAt(MapGet(w.context.hooks.state, path), cursor).current

\* factory(): () => a + 1 is [kind |-> "inc", a], () => callback is
\* [kind |-> "const", value]
CallFactory(factory) ==
  IF factory.kind = "inc"
  THEN (IF factory.a.kind = "value" THEN ValueSlot(factory.a.value + 1) ELSE NaNSlot)
  ELSE factory.value

\* useMemo(factory, deps) with the default equals
useMemo(w, factory, deps) ==
  LET Computed(r, value) ==
        [w |-> [RefWrite(r.w, r, [deps |-> deps, value |-> value])
                  EXCEPT !.last.computed = Append(@, <<r.path, r.cursor>>)],
         value |-> value]
      Cached(r) ==
        IF r.current = JsNull \/ ~shallowEquals(r.current.deps, deps)
        THEN Only({Computed(r, value) : value \in {CallFactory(factory)}})
        ELSE [w |-> r.w, value |-> r.current.value]
  IN Only({Cached(r) : r \in {useRef(w, JsNull)}})

\* useCallback(callback, deps)
useCallback(w, callback, deps) == useMemo(w, [kind |-> "const", value |-> callback], deps)

\* useAutoCallback(fn)
useAutoCallback(w, fn) ==
  LET Stable(fnRef) == Only({useCallback(w1, Wrapper(fnRef), << >>) :
                               w1 \in {RefWrite(fnRef.w, fnRef, fn)}})
  IN Only({Stable(fnRef) : fnRef \in {useRef(w, fn)}})

\* f(): the value a function of a component returns when it is called
CallFn(w, f) ==
  IF f.body = "fnRef" THEN RefRead(w, f.path, f.cursor).a ELSE f.a

----------------------------------------------------------------------------
(* The component functions of the applications the model renders *)

\* Sel: const [i] = useState(0); return props.alts[i % props.alts.length]
FnSel == FnType("Sel", 1)
\* Eff: const [a] = useState(0); useEffect(effect, deps);
\*      if (props.two) useEffect(effect, []); return String(a)
\* where deps is undefined (mode "none"), [] (mode "empty") or [a] (mode "dep")
FnEff == FnType("Eff", 2)

Sel(w, props) ==
  LET Return(r, i) == [w |-> r.w, node |-> props.alts[(i % Len(props.alts)) + 1]]
      Index(r) == Return(r, IF r.value.kind = "value" THEN r.value.value ELSE 0)
  IN Index(useState(w, [kind |-> "value", value |-> 0]))

Eff(w, props) ==
  LET Deps(a) == CASE props.mode = "none" -> NullDeps
                   [] props.mode = "empty" -> [list |-> << >>]
                   [] OTHER -> [list |-> <<a>>]
      Second(w1) == IF props.two THEN useEffect(w1, [ret |-> props.ret], [list |-> << >>])
                    ELSE w1
      Body(w0, a) == [w |-> Second(useEffect(w0, [ret |-> props.ret], Deps(a))),
                      node |-> createTextElement(Num(a))]
      State(r) == Body(r.w, IF r.value.kind = "value" THEN r.value.value ELSE Undefined)
  IN State(useState(w, [kind |-> "value", value |-> 0]))

\* Item: const [v] = useState(props.init); return <li>{v}</li>
\* two functions of this name exist, as two modules would define them; the
\* second renders a span
FnItem == FnType("Item", 3)
FnItemToo == FnType("Item", 4)

Item(w, props, tag) ==
  LET Return(r) ==
        [w |-> r.w,
         node |-> [type |-> [kind |-> "host", name |-> tag, id |-> 0], key |-> NullKey,
                   props |-> [children |->
                                <<createTextElement(
                                    Num(IF r.value.kind = "value" THEN r.value.value
                                        ELSE Undefined))>>]]]
  IN Return(useState(w, [kind |-> "value", value |-> props.init]))

\* Calc: const [a] = useState(props.init);
\*       const v = useMemo(() => a + 1, [a]); return <li>{v}</li>
FnCalc == FnType("Calc", 7)
\* Auto: const [a] = useState(props.init);
\*       const f = useAutoCallback(() => a); return <li>{f()}</li>
FnAuto == FnType("Auto", 8)
\* Held: const [a] = useState(props.init);
\*       const f = useCallback(() => a, [props.init]); return <li>{f()}</li>
FnHeld == FnType("Held", 9)

\* <li>{value}</li> as createElement makes it: a number as its text, NaN
\* as "NaN", undefined as no child
ListItemOf(value) ==
  [type |-> HostType("li"), key |-> NullKey,
   props |-> [children |->
                CASE value.kind = "value" -> <<createTextElement(Num(value.value))>>
                  [] value.kind = "nan" -> <<createTextElement(Str("NaN"))>>
                  [] OTHER -> << >>]]

Calc(w, props) ==
  LET Return(m) == [w |-> m.w, node |-> ListItemOf(m.value)]
      Memo(r) == Only({Return(m) : m \in {useMemo(r.w, [kind |-> "inc", a |-> r.value],
                                                  <<r.value>>)}})
  IN Only({Memo(r) : r \in {useState(w, [kind |-> "value", value |-> props.init])}})

Auto(w, props) ==
  LET Return(c) == [w |-> c.w, node |-> ListItemOf(CallFn(c.w, c.value))]
      Callback(r) == Only({Return(c) : c \in {useAutoCallback(r.w, Closure(r.value))}})
  IN Only({Callback(r) : r \in {useState(w, [kind |-> "value", value |-> props.init])}})

Held(w, props) ==
  LET Return(c) == [w |-> c.w, node |-> ListItemOf(CallFn(c.w, c.value))]
      Callback(r) == Only({Return(c) : c \in {useCallback(r.w, Closure(r.value),
                                                      <<props.init>>)}})
  IN Only({Callback(r) : r \in {useState(w, [kind |-> "value", value |-> props.init])}})

\* the component functions that are not memoised: Component(props)
Wrapped(w, type, props) ==
  CASE type = FnSel -> Sel(w, props)
    [] type = FnEff -> Eff(w, props)
    [] type = FnItem -> Item(w, props, "li")
    [] type = FnItemToo -> Item(w, props, "span")
    [] type = FnCalc -> Calc(w, props)
    [] type = FnAuto -> Auto(w, props)
    [] type = FnHeld -> Held(w, props)

----------------------------------------------------------------------------
(* hocs/memo.ts *)

\* memo(Item) and memo(Item, () => false): the MemoizedComponent closures,
\* with displayName Memo(Item)
FnMemoItem == FnType("Memo(Item)", 5)
FnMemoItemNever == FnType("Memo(Item)", 6)

IsMemoized(type) == type \in {FnMemoItem, FnMemoItemNever}

\* let cache = null
NullCache == [null |-> "cache"]
CacheOf(m, self) == IF self \in DOMAIN m THEN m[self].cache ELSE NullCache

\* the observer's note of the last invocation of the wrapped component
InvokedOf(m, self) == IF self \in DOMAIN m THEN m[self].invoked ELSE NullCache

\* equals(cache.props, props): shallowEquals unless memo was given another
equals(self, a, b) == IF self = FnMemoItemNever THEN FALSE ELSE shallowEquals(a, b)

MemoEntry(w, self, props, called, result) ==
  [self |-> self, props |-> props, prior |-> InvokedOf(w.memo, self),
   called |-> called, result |-> result]

\* Component(props) inside MemoizedComponent; the observer notes the call
InvokeWrapped(w, self, props) ==
  LET Noted(r) ==
        [w |-> [r.w EXCEPT !.memo = Put(@, self, [cache |-> CacheOf(@, self),
                                                  invoked |-> [props |-> props,
                                                               result |-> r.node]])],
         node |-> r.node]
  IN Noted(Wrapped(w, FnItem, props))

\* cache = { props, result }; the observer completes its entry of the call
StoreCache(r, self, props, entry) ==
  [w |-> [r.w EXCEPT !.memo[self].cache = [props |-> props, result |-> r.node],
                     !.last.memoized = Append(@, [entry EXCEPT !.result = r.node])],
   node |-> r.node]

\* a MemoizedComponent that compares nothing once it has a cache
MemoizedComponentFirstOnly(w, self, props) ==
  LET Call(cache) ==
        IF cache = NullCache
        THEN StoreCache(InvokeWrapped(w, self, props), self, props,
                        MemoEntry(w, self, props, TRUE, NullNode))
        ELSE [w |-> [w EXCEPT !.last.memoized =
                                Append(@, MemoEntry(w, self, props, FALSE, cache.result))],
              node |-> cache.result]
  IN Call(CacheOf(w.memo, self))

\* MemoizedComponent(props)
MemoizedComponent(w, self, props) ==
  LET Call(cache) ==
        IF cache = NullCache \/ ~equals(self, cache.props, props)
        THEN StoreCache(InvokeWrapped(w, self, props), self, props,
                        MemoEntry(w, self, props, TRUE, NullNode))
        ELSE [w |-> [w EXCEPT !.last.memoized =
                                Append(@, MemoEntry(w, self, props, FALSE, cache.result))],
              node |-> cache.result]
  IN Call(CacheOf(w.memo, self))

\* Component(props)
Component(w, type, props) ==
  IF IsMemoized(type) THEN MemoizedComponent(w, type, props)
  ELSE Wrapped(w, type, props)

----------------------------------------------------------------------------
(* reconciler.ts: reconcile *)

\* a test that looks at the type only
MustReplaceTypeOnly(instance, node) == instance.node.type # node.type

\* an instance is replaced when its type or key differs
MustReplace(instance, node) ==
  instance.node.type # node.type \/ instance.key # node.key

\* an exception is on its way out of the call: the steps that follow are
\* not taken
Throwing(w) == w.last.threw

\* reconcile mutates the instance it updates: the old child is then the
\* instance the call worked on, also when the call threw
UpdatedInPlace(instance, node) ==
  instance # NullInst /\ node # NullNode /\ ~MustReplace(instance, node)

RECURSIVE reconcile(_, _, _, _, _)
RECURSIVE reconcileChildren(_, _, _, _, _, _, _)

\* childNodes.forEach((child, index) => ...): child index against the old
\* child at the same index (oldChildren[index] || null)
reconcileChildren(w, parentDom, oldChildren, childNodes, index, path, acc) ==
  IF index >= Len(childNodes) THEN [w |-> w, children |-> acc, old |-> oldChildren]
  ELSE LET child == childNodes[index + 1]
           childPath == createChildPath(path, child.key, index, child.type, childNodes)
           oldChildInstance == IF index + 1 <= Len(oldChildren) THEN oldChildren[index + 1]
                               ELSE NullInst
           Mutated(inst) == IF UpdatedInPlace(oldChildInstance, child)
                            THEN [oldChildren EXCEPT ![index + 1] = inst] ELSE oldChildren
           Rest(r) == IF Throwing(r.w)
                      THEN [w |-> r.w, children |-> acc, old |-> Mutated(r.inst)]
                      ELSE reconcileChildren(r.w, parentDom, Mutated(r.inst), childNodes,
                                             index + 1, path, Append(acc, r.inst))
       IN Only({Rest(r) : r \in {reconcile(w, parentDom, oldChildInstance, child, childPath)}})

\* an update that leaves the old children beyond the new count in place
removeRestNone(d, parentDom, oldChildren, i) == d

\* for (let i = childNodes.length; i < oldChildren.length; i++) removeInstance
RECURSIVE removeRest(_, _, _, _)
removeRest(d, parentDom, oldChildren, i) ==
  IF i >= Len(oldChildren) THEN d
  ELSE removeRest(removeInstance(d, parentDom, oldChildren[i + 1]), parentDom, oldChildren, i + 1)

\* componentStack.push(path); cursor.set(path, 0); visited.add(path)
enterComponent(ctx, path) ==
  [ctx EXCEPT !.hooks.componentStack = Append(@, path),
              !.hooks.cursor = Put(@, path, 0),
              !.hooks.visited = @ \cup {path}]

\* the path of the single child of a component
ComponentChildPath(path, childNode) ==
  IF childNode # NullNode
  THEN createChildPath(path, childNode.key, 0, childNode.type, <<childNode>>)
  ELSE path

mountText(w, parentDom, node, path) ==
  LET h == w.nextId
      newInstance == [kind |-> "text", dom |-> h, node |-> node, children |-> << >>,
                      key |-> node.key, path |-> path]
      d1 == Put(w.dom, h, NewText(node.props.nodeValue))
  IN [w |-> [w EXCEPT !.dom = insertInstance(d1, parentDom, newInstance, NullDom),
                      !.nextId = h + 1],
      inst |-> newInstance]

mountFragment(w, parentDom, node, path) ==
  LET newInstance(children) ==
        [kind |-> "fragment", dom |-> getFirstDomFromChildren(children),
         node |-> node, children |-> children, key |-> node.key, path |-> path]
      Return(r) == [w |-> r.w,
                    inst |-> IF Throwing(r.w) THEN NullInst ELSE newInstance(r.children)]
  IN Only({Return(r) : r \in {reconcileChildren(w, parentDom, << >>, ChildrenOf(node.props),
                                                  0, path, << >>)}})

mountComponent(w, parentDom, node, path) ==
  LET newInstance(childInstance) ==
        [kind |-> "component", dom |-> getFirstDom(childInstance), node |-> node,
         children |-> IF childInstance # NullInst THEN <<childInstance>> ELSE << >>,
         key |-> node.key, path |-> path]
      Return(r) == [w |-> [r.w EXCEPT !.context.hooks.componentStack = Front(@)],
                    inst |-> IF Throwing(r.w) THEN NullInst ELSE newInstance(r.inst)]
      Child(c) == Only({Return(r) : r \in {reconcile(c.w, parentDom, NullInst, c.node,
                                                     ComponentChildPath(path, c.node))}})
  IN Only({Child(c) : c \in {Component([w EXCEPT !.context = enterComponent(@, path)],
                                       node.type, node.props)}})

mountHost(w, parentDom, node, path) ==
  LET h == w.nextId
      Insert(w1, newInstance) ==
        [w |-> [w1 EXCEPT !.dom = insertInstance(@, parentDom, newInstance, NullDom)],
         inst |-> newInstance]
      Return(r) ==
        IF Throwing(r.w) THEN [w |-> r.w, inst |-> NullInst]
        ELSE Insert(r.w, [kind |-> "host", dom |-> h, node |-> node,
                          children |-> r.children, key |-> node.key, path |-> path])
      Children(p) ==
        IF p.threw
        THEN [w |-> [w EXCEPT !.dom = p.d, !.nextId = h + 1, !.last.threw = TRUE],
              inst |-> NullInst]
        ELSE Only({Return(r) : r \in {reconcileChildren(
                                         [w EXCEPT !.dom = p.d, !.nextId = h + 1], h, << >>,
                                         ChildrenOf(node.props), 0, path, << >>)}})
  IN Only({Children(p) : p \in {setDomProps(Put(w.dom, h, NewElement(node.type.name)), h,
                                            node.props)}})

updateText(w, instance, node) ==
  [w |-> IF IsText(w.dom, instance.dom)
         THEN [w EXCEPT !.dom[instance.dom].text = node.props.nodeValue]
         ELSE w,
   inst |-> [instance EXCEPT !.node = node]]

updateFragment(w, parentDom, instance, node, path) ==
  LET childNodes == ChildrenOf(node.props)
      Return(r) ==
        IF Throwing(r.w) THEN [w |-> r.w, inst |-> [instance EXCEPT !.children = r.old]]
        ELSE
        [w |-> [r.w EXCEPT !.dom = removeRest(@, parentDom, instance.children, Len(childNodes))],
         inst |-> [instance EXCEPT !.children = r.children,
                                   !.dom = getFirstDomFromChildren(r.children),
                                   !.node = node]]
  IN Only({Return(r) : r \in {reconcileChildren(w, parentDom, instance.children, childNodes,
                                                  0, path, << >>)}})

updateComponent(w, parentDom, instance, node, path) ==
  LET prevCursor == IF path \in DOMAIN w.context.hooks.cursor
                    THEN w.context.hooks.cursor[path] ELSE 0
      oldChildInstance == IF instance.children # << >> THEN instance.children[1] ELSE NullInst
      Return(r, childNode) ==
        [w |-> [r.w EXCEPT !.context.hooks.componentStack = Front(@),
                           !.context.hooks.cursor = Put(@, path, prevCursor)],
         inst |-> IF Throwing(r.w)
                  THEN [instance EXCEPT
                          !.children = IF UpdatedInPlace(oldChildInstance, childNode)
                                       THEN <<r.inst>> ELSE @]
                  ELSE [instance EXCEPT
                          !.children = IF r.inst # NullInst THEN <<r.inst>> ELSE << >>,
                          !.dom = getFirstDom(r.inst),
                          !.node = node]]
      Child(c) == Only({Return(r, c.node) :
                          r \in {reconcile(c.w, parentDom, oldChildInstance, c.node,
                                           ComponentChildPath(path, c.node))}})
  IN Only({Child(c) : c \in {Component([w EXCEPT !.context = enterComponent(@, path)],
                                       node.type, node.props)}})

updateHost(w, instance, node, path) ==
  IF ~IsElement(w.dom, instance.dom) THEN [w |-> w, inst |-> instance]
  ELSE
    LET childNodes == ChildrenOf(node.props)
        Return(r) ==
          IF Throwing(r.w) THEN [w |-> r.w, inst |-> [instance EXCEPT !.children = r.old]]
          ELSE
          [w |-> [r.w EXCEPT !.dom = removeRest(@, instance.dom, instance.children,
                                                Len(childNodes))],
           inst |-> [instance EXCEPT !.children = r.children, !.node = node]]
        Children(p) ==
          IF p.threw
          THEN [w |-> [w EXCEPT !.dom = p.d, !.last.threw = TRUE], inst |-> instance]
          ELSE Only({Return(r) : r \in {reconcileChildren(
                                           [w EXCEPT !.dom = p.d], instance.dom,
                                           instance.children, childNodes, 0, path, << >>)}})
    IN Only({Children(p) : p \in {updateDomProps(w.dom, instance.dom, instance.node.props,
                                                 node.props)}})

mount(w, parentDom, node, path) ==
  CASE node.type = TEXT_ELEMENT -> mountText(w, parentDom, node, path)
    [] node.type = Fragment -> mountFragment(w, parentDom, node, path)
    [] IsFunction(node.type) -> mountComponent(w, parentDom, node, path)
    [] OTHER -> mountHost(w, parentDom, node, path)

reconcile(w, parentDom, instance, node, path) ==
  IF node = NullNode
  THEN [w |-> [w EXCEPT !.dom = removeInstance(@, parentDom, instance)], inst |-> NullInst]
  ELSE IF instance = NullInst THEN mount(w, parentDom, node, path)
  ELSE IF MustReplace(instance, node)
  THEN reconcile([w EXCEPT !.dom = removeInstance(@, parentDom, instance)],
                 parentDom, NullInst, node, path)
  ELSE CASE node.type = TEXT_ELEMENT -> updateText(w, instance, node)
         [] node.type = Fragment -> updateFragment(w, parentDom, instance, node, path)
         [] IsFunction(node.type) -> updateComponent(w, parentDom, instance, node, path)
         [] OTHER -> updateHost(w, instance, node, path)

----------------------------------------------------------------------------
(* reconciler.ts 260-327: flushEffects, render *)

\* the closure an effect returns: hook.effect() || null
CleanupFn == [fn |-> "cleanup"]
RunEffect(effect) == IF effect.ret THEN CleanupFn ELSE NullFn

\* the observer's notes of a flush: an entry skipped, a cleanup called, an
\* effect called
Skipped(w, entry) ==
  [w EXCEPT !.last.events = Append(@, [ev |-> "skip", slot |-> <<entry.path, entry.cursor>>])]

RanEffect(w, entry, hooks, hook, hadCleanup) ==
  LET slot == <<entry.path, entry.cursor>>
      hook1 == [hook EXCEPT !.cleanup = RunEffect(hook.effect)]
  IN [w EXCEPT !.context.hooks.state =
                 MapSet(@, entry.path, SlotPut(hooks, entry.cursor, hook1)),
               !.last.cleaned = IF hadCleanup THEN Append(@, slot) ELSE @,
               !.last.ran = Append(@, slot),
               !.last.events = (IF hadCleanup THEN Append(@, [ev |-> "cleanup", slot |-> slot])
                                ELSE @) \o <<[ev |-> "effect", slot |-> slot]>>,
               !.fx = FxRan(IF hadCleanup THEN FxCleaned(@, slot) ELSE @, slot)]

\* a flush that runs the effect and never calls the stored cleanup
flushOneNoCleanup(w, entry) ==
  IF ~MapHas(w.context.hooks.state, entry.path) THEN Skipped(w, entry)
  ELSE
    LET hooks == MapGet(w.context.hooks.state, entry.path)
        hook == SlotAt(hooks, entry.cursor)
    IN IF ~IsEffectHook(hook) THEN Skipped(w, entry)
       ELSE RanEffect(w, entry, hooks, hook, FALSE)

\* one entry of effectsToRun
flushOne(w, entry) ==
  IF ~MapHas(w.context.hooks.state, entry.path) THEN Skipped(w, entry)
  ELSE
    LET hooks == MapGet(w.context.hooks.state, entry.path)
        hook == SlotAt(hooks, entry.cursor)
    IN IF ~IsEffectHook(hook) THEN Skipped(w, entry)
       ELSE RanEffect(w, entry, hooks, hook, hook.cleanup # NullFn)

RECURSIVE flushAll(_, _)
flushAll(w, effectsToRun) ==
  IF effectsToRun = << >> THEN w
  ELSE flushAll(flushOne(w, Head(effectsToRun)), Tail(effectsToRun))

flushEffects(w) ==
  flushAll([w EXCEPT !.context.effects.queue = << >>], w.context.effects.queue)

\* render flushing the effects itself instead of deferring the flush
afterRenderSync(w) == flushEffects(w)

\* step 5 of render: the effects are flushed in a later microtask
afterRender(w) == enqueue(w, "flush")

render(w) ==
  LET root == w.context.root
  IN IF root.container = NullDom \/ root.node = NullNode THEN w
     ELSE
       LET Done(w3) == afterRender([w3 EXCEPT !.last.renders = @ + 1, !.turn = NoCalls])
           Store(r) ==
             IF Throwing(r.w)
             THEN [r.w EXCEPT !.context.root.instance =
                                IF UpdatedInPlace(root.instance, root.node) THEN r.inst ELSE @]
             ELSE Done(cleanupUnusedHooks([r.w EXCEPT !.context.root.instance = r.inst]))
       IN Only({Store(r) : r \in {reconcile([w EXCEPT !.context = hooksClear(@)],
                                            root.container, root.instance, root.node, "")}})

----------------------------------------------------------------------------
(* unnamed/part_000: setup *)

\* a guard that checks the container only
setupRejectsContainerOnly(w, rootNode, container) == ~IsElement(w.dom, container)

\* step 1 of setup: the arguments that make it throw
setupRejects(w, rootNode, container) ==
  ~IsElement(w.dom, container) \/ rootNode = NullNode

\* a reset that keeps the hook state map
setupResetKeepsState(w, rootNode, container) ==
  [w EXCEPT !.context = [hooksClear(rootReset(@, container, rootNode))
                           EXCEPT !.effects.queue = << >>]]

\* step 3 of setup: the root and the hook context are reset
setupReset(w, rootNode, container) ==
  [w EXCEPT !.context = [hooksClear(rootReset(@, container, rootNode))
                           EXCEPT !.hooks.state = << >>, !.effects.queue = << >>],
            !.fx = << >>]

\* steps 2 to 5 of setup
setupBody(w, rootNode, container) ==
  LET prev == w.context.root
      Unmounted == IF prev.container # NullDom /\ prev.instance # NullInst
                   THEN [w EXCEPT !.dom = removeInstance(@, prev.container, prev.instance)]
                   ELSE w
      Emptied(w2) == [w2 EXCEPT !.dom = replaceChildren(@, container)]
      Queued(w5) == IF Throwing(w5) THEN w5 ELSE enqueue(w5, "flush")
  IN Only({Queued(w5) : w5 \in {render(setupReset(Emptied(cleanupUnusedHooks(Unmounted)),
                                                  rootNode, container))}})

setup(w, rootNode, container) ==
  IF setupRejects(w, rootNode, container) THEN [w EXCEPT !.last.threw = TRUE]
  ELSE setupBody(w, rootNode, container)

----------------------------------------------------------------------------
(* The applications and the inputs of the operations *)

Text(value) == createTextElement(Str(value))
Host(tag, children) == VNode(HostType(tag), NullKey, EmptyProps, children)
EffNode(mode, two, ret) ==
  [type |-> FnEff, key |-> NullKey, props |-> [mode |-> mode, two |-> two, ret |-> ret]]
SelNode(alts) == [type |-> FnSel, key |-> NullKey, props |-> [alts |-> alts]]

\* a switch between a div holding a component with two effects (dependency
\* lists [a] and []), nothing at all, and a component with an effect that
\* has no dependency list
AppA ==
  SelNode(<<Host("div", <<EffNode("dep", TRUE, TRUE)>>),
            NullNode,
            EffNode("none", FALSE, TRUE)>>)

\* a switch between a component with an effect with [] that returns no
\* cleanup, and a text
AppB ==
  SelNode(<<EffNode("empty", FALSE, FALSE), Text("y")>>)

RootNodes == {AppA, AppB}

\* the container handles setup is called with: two elements, of which the
\* second holds residual content, the text node 3 (not an element), and null
Containers == {1, 2}

\* the arguments setup is called with: every application on every
\* container, a null root node, a text node and null as the container
SetupArgs ==
  (RootNodes \X Containers) \cup {<<NullNode, 1>>, <<AppA, 3>>, <<AppB, NullDom>>}

InitialDom ==
  [h \in 1..3 |->
     CASE h = 1 -> NewElement("div")
       [] h = 2 -> [NewElement("div") EXCEPT !.children = <<3>>]
       [] h = 3 -> [NewText("residue") EXCEPT !.parent = 2]]

\* the arguments a state updater is called with: a value, or (prev) => prev + 1
UpdaterArgs ==
  {[kind |-> "fn", f |-> "inc"]} \cup {[kind |-> "value", slot |-> ValueSlot(v)] : v \in 0..MaxVal}

\* every state cell holds a value of 0..MaxVal
ValuesInRange(w) ==
  \A i \in 1..Len(w.context.hooks.state) :
    \A j \in 1..Len(w.context.hooks.state[i].value) :
      LET slot == w.context.hooks.state[i].value[j]
      IN slot.kind = "value" => slot.value \in 0..MaxVal

\* the DOM nodes below a handle, itself included
RECURSIVE Subtree(_, _)
Subtree(d, h) == {h} \cup UNION {Subtree(d, d[h].children[i]) : i \in 1..Len(d[h].children)}

\* the DOM handles an instance tree refers to
RECURSIVE HandlesOf(_)
HandlesOf(instance) ==
  IF instance = NullInst THEN {}
  ELSE (IF instance.dom # NullDom THEN {instance.dom} ELSE {})
       \cup UNION {HandlesOf(instance.children[i]) : i \in 1..Len(instance.children)}

\* the heap without the nodes nothing refers to any more: the nodes that are
\* neither in the document of the test (the handles of InitialDom and what
\* is attached below them) nor held by the instance tree are garbage
Collected(w) ==
  LET roots == DOMAIN InitialDom \cup HandlesOf(w.context.root.instance)
      live == UNION {Subtree(w.dom, h) : h \in roots}
  IN [h \in live |-> w.dom[h]]

----------------------------------------------------------------------------
(* The state machine *)

Init ==
  /\ dom = InitialDom
  /\ nextId = 4
  /\ context = EmptyContext
  /\ setters = {}
  /\ microtasks = << >>
  /\ scheduled = FALSE
  /\ memo = << >>
  /\ fx = << >>
  /\ turn = NoCalls
  /\ last = Quiet("init")

Becomes(w) ==
  /\ w.nextId <= MaxAlloc
  /\ ValuesInRange(w)
  /\ dom' = Collected(w)
  /\ nextId' = w.nextId
  /\ context' = w.context
  /\ setters' = w.setters
  /\ microtasks' = w.microtasks
  /\ scheduled' = w.scheduled
  /\ fx' = w.fx
  /\ turn' = w.turn
  /\ memo' = w.memo
  /\ last' = w.last

\* Once a microtask has run, the queue is drained before the application
\* runs again: the application's calls are made in synchronous turns
Draining == last.op \in {"render", "flush"} /\ microtasks # << >>

\* setup(rootNode, container), called by the application
\* the stored value of a setter's slot, as the observer reads it
StoredSlotIn(state, path, cursor) ==
  IF MapHas(state, path) THEN SlotAt(MapGet(state, path), cursor) ELSE UndefinedSlot
StoredSlot(ctx, path, cursor) == StoredSlotIn(ctx.hooks.state, path, cursor)

\* the application calls setup(rootNode, container); the observer notes the
\* arguments and the state slot of the root component before the call
Setup ==
  \E args \in SetupArgs :
    /\ ~Draining
    /\ LET w == setup([World EXCEPT !.last = Quiet("setup")], args[1], args[2])
           call == [root |-> args[1], container |-> args[2],
                    before |-> StoredSlot(context, "", 0),
                    cleanups |-> Flatten([i \in 1..Len(context.hooks.state) |->
                                            CleanupsOf(context.hooks.state[i].key,
                                                       context.hooks.state[i].value)])]
       IN Becomes([w EXCEPT !.last.call = call])

\* a setState closure is called by the application
CallSetState ==
  \E s \in setters, arg \in UpdaterArgs :
    /\ ~Draining
    /\ LET w == setState([World EXCEPT !.last = Quiet("setState")], s[1], s[2], arg)
           call == [path |-> s[1], cursor |-> s[2], arg |-> arg,
                    live |-> MapHas(context.hooks.state, s[1]),
                    before |-> StoredSlot(context, s[1], s[2])]
       IN Becomes([w EXCEPT !.last.call = call,
                            !.turn = [called |-> TRUE, wrote |-> @.wrote \/ w.last.wrote]])

\* the microtask queued by enqueueRender runs: withEnqueue clears its flag
\* and calls render
RunRender ==
  /\ microtasks # << >> /\ Head(microtasks) = "render"
  /\ Becomes(render([World EXCEPT !.microtasks = Tail(@), !.scheduled = FALSE,
                                  !.last = Quiet("render")]))

\* the microtask enqueue(flushEffects) runs
RunFlush ==
  /\ microtasks # << >> /\ Head(microtasks) = "flush"
  /\ Becomes(flushEffects([World EXCEPT !.microtasks = Tail(@), !.last = Quiet("flush")]))

Next == Setup \/ CallSetState \/ RunRender \/ RunFlush

Spec == Init /\ [][Next]_vars

----------------------------------------------------------------------------
(* reconcile called on its own: a caller holds one instance, mounted under  *)
(* a parent at a path, and mounts, updates, replaces and unmounts it.  The  *)
(* caller keeps the parent and the instance in context.root; nothing is     *)
(* scheduled; the nodes of the instance a call was given stay on the heap   *)
(* until the next call                                                      *)

MaxRecAlloc == 8

KeyedHost(tag, k, children) == VNode(HostType(tag), <<k>>, EmptyProps, children)
FragmentOf(children) == VNode(Fragment, NullKey, EmptyProps, children)

\* the subtrees: text, host elements (nested, keyed), fragments (empty,
\* nested) and components (rendering an element, a text, a fragment, nothing)
RecNodes ==
  {Text("a"), Text("b"),
   Host("div", <<Text("a")>>), Host("span", << >>),
   Host("div", <<FragmentOf(<<Text("a"), Host("span", << >>)>>)>>),
   KeyedHost("div", "k1", << >>), KeyedHost("div", "k2", << >>),
   FragmentOf(<<Text("a"), Text("b")>>), FragmentOf(<< >>),
   FragmentOf(<<Host("div", << >>), SelNode(<<Text("b")>>)>>),
   SelNode(<<Host("div", <<Text("a")>>)>>), SelNode(<<NullNode>>),
   SelNode(<<FragmentOf(<<Text("a"), Text("b")>>)>>)}

RecPaths == {"", ".i0"}

BecomesRec(w, op, call) ==
  /\ w.nextId <= MaxRecAlloc + 1
  /\ dom' = LET live == DOMAIN Collected(w)
                        \cup UNION {Subtree(w.dom, h) : h \in HandlesOf(call.prev)}
            IN [h \in live |-> w.dom[h]]
  /\ nextId' = w.nextId
  /\ context' = w.context
  /\ setters' = w.setters
  /\ microtasks' = w.microtasks
  /\ scheduled' = w.scheduled
  /\ fx' = w.fx
  /\ turn' = w.turn
  /\ memo' = w.memo
  /\ last' = [w.last EXCEPT !.op = op, !.call = call]

\* instance = reconcile(parentDom, instance, node, path), as the caller runs
\* it; the observer notes the arguments and the parent's children before
Reconciled(parentDom, node, path, op) ==
  LET prev == context.root.instance
      Stored(r) ==
        [r.w EXCEPT !.context.root =
                      [container |-> parentDom, node |-> node,
                       instance |-> IF Throwing(r.w) /\ ~UpdatedInPlace(prev, node)
                                    THEN prev ELSE r.inst]]
      Caller(w) ==
        BecomesRec(w, op, [parent |-> parentDom, prev |-> prev, node |-> node, path |-> path,
                           before |-> dom[parentDom].children,
                           mounted |-> IF op = "unmount" /\ last.op = "mount"
                                       THEN last.call.before ELSE << >>,
                           fresh |-> op = "unmount" /\ last.op = "mount"])
  IN \E r \in {reconcile([World EXCEPT !.last = Quiet(op)], parentDom, prev, node, path)} :
       Caller(Stored(r))

\* reconcile(parent, null, node, path)
Mount ==
  \E parentDom \in Containers, node \in RecNodes, path \in RecPaths :
    /\ context.root.instance = NullInst
    /\ Reconciled(parentDom, node, path, "mount")

\* reconcile(parent, instance, node, path): an update in place or a replacement
Update ==
  \E node \in RecNodes :
    /\ context.root.instance # NullInst
    /\ Reconciled(context.root.container, node, context.root.instance.path, "update")

\* reconcile(parent, instance, null, path)
Unmount ==
  /\ context.root.instance # NullInst
  /\ Reconciled(context.root.container, NullNode, context.root.instance.path, "unmount")

NextRec == Mount \/ Update \/ Unmount

SpecRec == Init /\ [][NextRec]_vars

----------------------------------------------------------------------------
(* setDomProps and updateDomProps called on their own: an element is        *)
(* created with one prop mapping and then updated with others               *)

\* the style objects: two with the same entries and different identities
StyleRed == Obj(1, [color |-> Str("red")])
StyleRedAgain == Obj(2, [color |-> Str("red")])
StyleWide == Obj(3, [width |-> Str("9px")])

\* the arrays: two with the same contents and different identities, empty
\* and of one string
ListNone == Arr(1, << >>)
ListNoneAgain == Arr(2, << >>)
ListX == Arr(3, <<Str("x")>>)
ListXAgain == Arr(4, <<Str("x")>>)

\* the values a key is given
ValuesOfKey(key) ==
  CASE key = "a" -> {Num(1), Num(2)}
    [] key = "b" -> {Num(2)}
    [] key = "c" -> {Num(3)}
    [] key = "onClick" -> {Fn(1), Fn(2), JsNull, JsUndefined}
    [] key = "className" -> {Str("x")}
    [] key = "id" -> {Str("m")}
    [] key = "style" -> {StyleRed, StyleRedAgain, StyleWide, JsNull}
    [] key = "children" -> {Arr(5, <<createTextElement(Str("t"))>>)}

AllValues ==
  UNION {ValuesOfKey(k) : k \in {"a", "b", "c", "onClick", "className", "id", "style", "children"}}

\* the mappings over a set of keys
MappingsOver(keys) ==
  UNION {{f \in [S -> AllValues] : \A k \in S : f[k] \in ValuesOfKey(k)} : S \in SUBSET keys}

\* the mappings of one key to an array: an attribute, a property, a style
ListMappings ==
  {[a |-> v] : v \in {ListNone, ListNoneAgain}}
    \cup {[id |-> v] : v \in {ListX, ListXAgain}}
    \cup {[style |-> v] : v \in {ListX, ListXAgain}}

PropSets ==
  MappingsOver({"a", "b", "c", "children"}) \cup MappingsOver({"onClick", "className"})
    \cup MappingsOver({"id", "style"}) \cup ListMappings

\* dom = document.createElement("div"); setDomProps(dom, props)
CreateWithProps ==
  \E props \in PropSets :
    /\ last.op = "init"
    /\ LET Done(r) ==
             /\ dom' = Put(dom, nextId, r.n)
             /\ last' = [Quiet("setDomProps") EXCEPT
                           !.threw = r.threw,
                           !.call = [handle |-> nextId, prev |-> EmptyProps, next |-> props,
                                     before |-> NewElement("div")]]
       IN Done(setDomPropsOn(NewElement("div"), props))
    /\ nextId' = nextId + 1
    /\ UNCHANGED <<context, setters, microtasks, scheduled, memo, fx, turn>>

\* updateDomProps(dom, prevProps, nextProps), prevProps being the props the
\* handle was last given; the log of the handle starts empty
UpdateProps ==
  \E nextProps \in PropSets :
    /\ last.op \in {"setDomProps", "updateDomProps"}
    /\ ~last.threw
    /\ LET h == last.call.handle
           before == [dom[h] EXCEPT !.log = << >>]
           Done(r) ==
             /\ dom' = [dom EXCEPT ![h] = r.n]
             /\ last' = [Quiet("updateDomProps") EXCEPT
                           !.threw = r.threw,
                           !.call = [handle |-> h, prev |-> last.call.next, next |-> nextProps,
                                     before |-> before]]
       IN Done(updateDomPropsOn(before, last.call.next, nextProps))
    /\ UNCHANGED <<nextId, context, setters, microtasks, scheduled, memo, fx, turn>>

NextProps == CreateWithProps \/ UpdateProps

SpecProps == Init /\ [][NextProps]_vars

----------------------------------------------------------------------------
(* Render passes over trees of siblings: the root component Sel shows one of
   the trees of its props, chosen by its state, inside the container *)

MaxTreeAlloc == 14

ItemNode(type, init) == [type |-> type, key |-> NullKey, props |-> [init |-> init]]
KeyedItem(type, k, init) == [type |-> type, key |-> <<k>>, props |-> [init |-> init]]

\* the lists of siblings: elements of which the middle one changes its tag,
\* a fragment and a component that gain and lose DOM nodes before a later
\* sibling, keyed elements in two orders, components of one function, of
\* two functions of the same name, and with keys, none, and one keyed
\* component whose key another list gives to another function
SiblingLists ==
  <<  <<Host("a", << >>), Host("b", << >>), Host("c", << >>)>>,
      <<Host("a", << >>), Host("p", << >>), Host("c", << >>)>>,
      <<FragmentOf(<< >>), Host("c", << >>)>>,
      <<FragmentOf(<<Text("x"), Host("b", << >>)>>), Host("c", << >>)>>,
      <<KeyedHost("li", "k1", << >>), KeyedHost("li", "k2", << >>)>>,
      <<KeyedHost("li", "k2", << >>), KeyedHost("li", "k1", << >>), Text("x")>>,
      <<ItemNode(FnItem, 1), ItemNode(FnItem, 2)>>,
      <<ItemNode(FnItem, 1), ItemNode(FnItemToo, 2)>>,
      <<KeyedItem(FnItem, "k1", 1), KeyedItem(FnItemToo, "k2", 2)>>,
      <<SelNode(<<NullNode, Host("b", << >>)>>), Host("c", << >>)>>,
      << >>,
      <<KeyedItem(FnItemToo, "k1", 2)>>  >>

\* a list of siblings below an element, or below a fragment and so directly
\* in the container
TreeOf(wrap, i) ==
  IF wrap = "host" THEN Host("ul", SiblingLists[i]) ELSE FragmentOf(SiblingLists[i])

\* the applications: Sel over two different trees of the same wrapping, which
\* its state switches in both directions
TreeApps ==
  {SelNode(<<TreeOf(wrap, p[1]), TreeOf(wrap, p[2])>>) :
     wrap \in {"host", "fragment"},
     p \in {q \in (1..Len(SiblingLists)) \X (1..Len(SiblingLists)) : q[1] < q[2]}}

BecomesTree(w) ==
  /\ w.nextId <= MaxTreeAlloc
  /\ ValuesInRange(w)
  /\ dom' = Collected(w)
  /\ nextId' = w.nextId
  /\ context' = w.context
  /\ setters' = w.setters
  /\ microtasks' = w.microtasks
  /\ scheduled' = w.scheduled
  /\ fx' = w.fx
  /\ turn' = w.turn
  /\ memo' = w.memo
  /\ last' = w.last

\* setup(<Sel alts=.../>, container)
TreeSetup ==
  \E app \in TreeApps :
    /\ last.op = "init"
    /\ BecomesTree(setup([World EXCEPT !.last = Quiet("setup")], app, 1))

\* the application calls a setState of the root component or of an Item
\* with 0, 1 or undefined
TreeSetState ==
  \E s \in setters, slot \in {ValueSlot(0), ValueSlot(1), UndefinedSlot} :
    /\ ~Draining
    /\ last.op # "init"
    /\ BecomesTree(setState([World EXCEPT !.last = Quiet("setState")], s[1], s[2],
                            [kind |-> "value", slot |-> slot]))

\* the deferred render runs; the observer notes the hook state and the
\* instance tree the pass starts from
TreeRender ==
  /\ microtasks # << >> /\ Head(microtasks) = "render"
  /\ BecomesTree(render([World EXCEPT
                           !.microtasks = Tail(@), !.scheduled = FALSE,
                           !.last = [Quiet("render") EXCEPT
                                       !.call = [hooks |-> context.hooks.state,
                                                 instance |-> context.root.instance]]]))

TreeFlush ==
  /\ microtasks # << >> /\ Head(microtasks) = "flush"
  /\ BecomesTree(flushEffects([World EXCEPT !.microtasks = Tail(@), !.last = Quiet("flush")]))

NextTree == TreeSetup \/ TreeSetState \/ TreeRender \/ TreeFlush

SpecTree == Init /\ [][NextTree]_vars

----------------------------------------------------------------------------
(* Render passes over memoised components *)

MemoNode(type, init) == [type |-> type, key |-> NullKey, props |-> [init |-> init]]

\* the lists of siblings: one memoised Item, two of them with equal and with
\* different props, one memoised with an equals that is never true
MemoLists ==
  <<  <<MemoNode(FnMemoItem, 1)>>,
      <<MemoNode(FnMemoItem, 2)>>,
      <<MemoNode(FnMemoItem, 1), MemoNode(FnMemoItem, 1)>>,
      <<MemoNode(FnMemoItem, 1), MemoNode(FnMemoItem, 2)>>,
      <<MemoNode(FnMemoItemNever, 1)>>,
      << >>  >>

MemoApps ==
  {SelNode(<<Host("ul", MemoLists[i]), Host("ul", MemoLists[j])>>) :
     i \in 1..Len(MemoLists), j \in 1..Len(MemoLists)}

\* setup(<Sel alts=.../>, container)
MemoSetup ==
  \E app \in MemoApps :
    /\ last.op = "init"
    /\ BecomesTree(setup([World EXCEPT !.last = Quiet("setup")], app, 1))

NextMemo == MemoSetup \/ TreeSetState \/ TreeRender \/ TreeFlush

SpecMemo == Init /\ [][NextMemo]_vars

----------------------------------------------------------------------------
(* Render passes over components that keep values in useMemo, useCallback
   and useAutoCallback, and over host elements whose props make setDomProps
   and updateDomProps throw *)

PropsHost(tag, props) == VNode(HostType(tag), NullKey, props, << >>)

\* the lists of siblings: one component of each kind, two of them, none,
\* an element between two others without props and with the style null,
\* and an element with an attribute before the style null
HookLists ==
  <<  <<ItemNode(FnCalc, 0)>>,
      <<ItemNode(FnAuto, 0)>>,
      <<ItemNode(FnHeld, 0)>>,
      <<ItemNode(FnCalc, 1), ItemNode(FnAuto, 1)>>,
      <<ItemNode(FnHeld, 1)>>,
      << >>,
      <<Host("a", << >>), Host("b", << >>), Host("c", << >>)>>,
      <<Host("a", <<Text("x")>>), PropsHost("b", [style |-> JsNull]), Host("d", << >>)>>,
      <<PropsHost("b", [a |-> Num(1), style |-> JsNull])>>  >>

\* the applications: Sel over two lists of components, and over a list
\* whose middle element throws and a list before or after it
HookApps ==
  {SelNode(<<Host("ul", HookLists[p[1]]), Host("ul", HookLists[p[2]])>>) :
     p \in ((1..6) \X (1..6)) \cup {<<7, 8>>, <<8, 7>>, <<1, 8>>, <<6, 9>>}}

\* setup(<Sel alts=.../>, container)
HooksSetup ==
  \E app \in HookApps :
    /\ last.op = "init"
    /\ BecomesTree(setup([World EXCEPT !.last = Quiet("setup")], app, 1))

NextHooks == HooksSetup \/ TreeSetState \/ TreeRender \/ TreeFlush

SpecHooks == Init /\ [][NextHooks]_vars

----------------------------------------------------------------------------
(* createElement as a function of its arguments: the raw children grow by
   one value at the end, or have their last values put into an array, and
   createElement is called again on the grown list *)

MaxAtoms == 4
MaxArrays == 2

\* the values a raw child can be, arrays aside
RawAtoms == {Str("x"), Num(5), JsNull, JsUndefined, Bool(TRUE),
             VNode(HostType("p"), <<"k">>, EmptyProps, << >>)}

\* the type and originProps arguments: no props, a key among the props, a
\* null key among the props
CreateArgs ==
  {[type |-> HostType("div"), originProps |-> JsNull],
   [type |-> Fragment, originProps |-> [key |-> Str("k"), id |-> Str("m")]],
   [type |-> HostType("div"), originProps |-> [key |-> JsNull, id |-> Str("m")]]}

\* the numbers of primitive or VNode values, and of arrays, in a raw list
RECURSIVE CountAtoms(_)
CountAtoms(items) ==
  IF items = << >> THEN 0
  ELSE (IF ~IsVNode(Head(items)) /\ Head(items).t = "array"
        THEN CountAtoms(Head(items).items) ELSE 1) + CountAtoms(Tail(items))

RECURSIVE CountArrays(_)
CountArrays(items) ==
  IF items = << >> THEN 0
  ELSE (IF ~IsVNode(Head(items)) /\ Head(items).t = "array"
        THEN 1 + CountArrays(Head(items).items) ELSE 0) + CountArrays(Tail(items))

Created(type, originProps, rawChildren) ==
  last' = [Quiet("createElement") EXCEPT
             !.call = [type |-> type, originProps |-> originProps,
                       rawChildren |-> rawChildren,
                       result |-> createElement(type, originProps, rawChildren)]]

\* createElement(type, originProps)
CreateNoChildren ==
  \E args \in CreateArgs :
    /\ last.op = "init"
    /\ Created(args.type, args.originProps, << >>)
    /\ UNCHANGED <<dom, nextId, context, setters, microtasks, scheduled, memo, fx, turn>>

\* createElement(type, originProps, ...rawChildren, child)
CreateWithChild ==
  \E child \in RawAtoms :
    /\ last.op = "createElement"
    /\ CountAtoms(last.call.rawChildren) < MaxAtoms
    /\ Created(last.call.type, last.call.originProps,
               Append(last.call.rawChildren, child))
    /\ UNCHANGED <<dom, nextId, context, setters, microtasks, scheduled, memo, fx, turn>>

\* createElement(type, originProps, ...first, [...rest])
CreateWithNested ==
  \E i \in 1..(MaxAtoms + MaxArrays + 1) :
    /\ last.op = "createElement"
    /\ i <= Len(last.call.rawChildren) + 1
    /\ CountArrays(last.call.rawChildren) < MaxArrays
    /\ Created(last.call.type, last.call.originProps,
               Append(SubSeq(last.call.rawChildren, 1, i - 1),
                      Arr(CountArrays(last.call.rawChildren) + 1,
                          SubSeq(last.call.rawChildren, i, Len(last.call.rawChildren)))))
    /\ UNCHANGED <<dom, nextId, context, setters, microtasks, scheduled, memo, fx, turn>>

NextCreate == CreateNoChildren \/ CreateWithChild \/ CreateWithNested

SpecCreate == Init /\ [][NextCreate]_vars

----------------------------------------------------------------------------
(* shallowEquals as a function of its arguments: two plain objects or arrays,
   each a reference to its own entries; the key of an array entry is its
   index as a string, as Object.entries gives it *)

MaxEntryVal == 1

\* the values of the entries: undefined and numbers
EntryValues == {Undefined} \cup 0..MaxEntryVal

\* the own keys an argument can have: two names and an index
EntryKeys == {"a", "b", "0"}

\* the entries an argument can have
EntrySets == UNION {[keys -> EntryValues] : keys \in SUBSET EntryKeys}

\* shallowEquals(a, b) of two references: Object.is(a, b) is the identity of
\* the references, and both are of typeof "object"
shallowEqualsOf(a, b) ==
  IF a.ref = b.ref THEN TRUE ELSE shallowEquals(a.entries, b.entries)

Compared(a, b) ==
  last' = [Quiet("shallowEquals") EXCEPT
             !.call = [a |-> a, b |-> b,
                       result |-> shallowEqualsOf(a, b),
                       reversed |-> shallowEqualsOf(b, a)]]

\* shallowEquals(a, b) and shallowEquals(b, a) of two objects
EqualsOfTwo ==
  \E x \in EntrySets, y \in EntrySets :
    /\ last.op = "init"
    /\ Compared([ref |-> 1, entries |-> x], [ref |-> 2, entries |-> y])
    /\ UNCHANGED <<dom, nextId, context, setters, microtasks, scheduled, memo, fx, turn>>

\* shallowEquals(a, a)
EqualsOfOne ==
  \E x \in EntrySets :
    /\ last.op = "init"
    /\ Compared([ref |-> 1, entries |-> x], [ref |-> 1, entries |-> x])
    /\ UNCHANGED <<dom, nextId, context, setters, microtasks, scheduled, memo, fx, turn>>

NextEquals == EqualsOfTwo \/ EqualsOfOne

SpecEquals == Init /\ [][NextEquals]_vars

----------------------------------------------------------------------------
(* What the observer reads from a state *)

hooksState == context.hooks.state
Pending(task) == Count(microtasks, task)

\* the instance at a path of an instance tree, NullInst when there is none
RECURSIVE FindInstance(_, _)
FindInstance(instance, path) ==
  IF instance = NullInst THEN NullInst
  ELSE IF instance.path = path /\ instance.kind = "component" THEN instance
  ELSE LET found == {i \in 1..Len(instance.children) :
                       FindInstance(instance.children[i], path) # NullInst}
       IN IF found = {} THEN NullInst
          ELSE FindInstance(instance.children[CHOOSE i \in found : TRUE], path)

\* the text the component mounted at a path shows, "" when it shows none
ShownText(path) ==
  LET instance == FindInstance(context.root.instance, path)
  IN IF instance = NullInst \/ instance.dom = NullDom THEN "" ELSE dom[instance.dom].text

\* the paths of the effect components of AppA
PathEffA == ".i0.cEff_0"
PathEffRoot == ".cEff_0"

----------------------------------------------------------------------------
(* C1 *)

\* C1 as stated: whenever at least one state updater call was made since the
\* last completed render pass, exactly one render pass is pending.
C1_AnyCallRenders == turn.called => Pending("render") = 1

\* C1, amended: at most one render pass is ever pending; when at least one of
\* the updater calls made since the last completed render pass wrote a slot,
\* exactly one is pending; the microtask that runs it makes one render pass
\* and leaves none pending; and a functional updater composes on the stored
\* value: after a call with (prev) => prev + 1 the slot holds one more than
\* it held before that call, whether or not a render happened in between.
C1_Batched ==
  /\ Pending("render") <= 1
  /\ turn.wrote => Pending("render") = 1
  /\ last.op = "render" => last.renders = 1 /\ Pending("render") = 0 /\ ~turn.called
  /\ (last.op = "setState" /\ last.call.live /\ last.call.arg.kind = "fn"
        /\ last.call.before.kind = "value")
       => StoredSlot(context, last.call.path, last.call.cursor)
            = ValueSlot(last.call.before.value + 1)

\* a slot rendered as 0 was updated twice with (prev) => prev + 1 in one
\* turn: it holds 2 while the tree still shows 0 and one render is pending
C1_Witness ==
  /\ last.op = "setState" /\ last.call.path = PathEffA /\ last.call.arg.kind = "fn"
  /\ last.call.before = ValueSlot(1)
  /\ StoredSlot(context, PathEffA, 0) = ValueSlot(2)
  /\ ShownText(PathEffA) = "0"
  /\ Pending("render") = 1

----------------------------------------------------------------------------
(* C2 *)

\* the value the call of the last step computed
ComputedByLast(l) == NewValue(l.call.arg, l.call.before)

\* C2: a state updater call whose computed value equals the slot's value
\* changes nothing: the hook store, the effect queue, the instance tree, the
\* DOM and the microtask queue are as before, and no render is enqueued.
C2_EqualIsNoOp ==
  [][(last'.op = "setState" /\ last'.call.live /\ ComputedByLast(last') = last'.call.before)
       => /\ context' = context
          /\ dom' = dom
          /\ microtasks' = microtasks
          /\ scheduled' = scheduled]_vars

\* an updater was called with the value its slot already holds
C2_Witness ==
  /\ last.op = "setState" /\ last.call.live /\ last.call.arg.kind = "value"
  /\ last.call.arg.slot = last.call.before
  /\ last.call.before = ValueSlot(1)
  /\ ~last.wrote

----------------------------------------------------------------------------
(* C3 *)

\* the effect slots of a hook store, as <<path, cursor>>
EffectSlots(state) ==
  UNION {{<<state[i].key, j - 1>> : j \in {k \in 1..Len(state[i].value) :
                                           state[i].value[k].kind = "effect"}}
         : i \in 1..Len(state)}

\* two dependency lists differ under element-wise comparison
ListsDiffer(x, y) == Len(x) # Len(y) \/ \E i \in 1..Len(x) : x[i] # y[i]

\* the condition of C3 on the slot's previous content and its new record
MustQueue(prev, new) ==
  \/ prev.kind # "effect"
  \/ new.deps = NullDeps
  \/ prev.deps = NullDeps
  \/ ListsDiffer(prev.deps.list, new.deps.list)

\* C3: in every render pass (the first one of setup, which starts from an
\* empty hook store, included), useEffect appends <<path, cursor>> to the
\* pending-effects queue exactly once if the slot had no effect record before,
\* no dependency list is given, the previous record had none, or the lists
\* differ element-wise, and not at all otherwise.
C3_QueuedIffChanged ==
  [][last'.renders > 0 =>
       /\ \A s \in EffectSlots(context'.hooks.state) :
            LET prev == IF last'.op = "setup" THEN UndefinedSlot
                        ELSE StoredSlot(context, s[1], s[2])
                new == StoredSlot(context', s[1], s[2])
            IN Count(last'.pushed, [path |-> s[1], cursor |-> s[2]])
                 = IF MustQueue(prev, new) THEN 1 ELSE 0
       /\ \A i \in 1..Len(last'.pushed) :
            <<last'.pushed[i].path, last'.pushed[i].cursor>> \in EffectSlots(context'.hooks.state)
    ]_vars

\* a render pass after the effects ran once re-queued the effect with the
\* dependency list [a], whose a changed, and not the one with [] beside it
C3_Witness ==
  /\ last.op = "render"
  /\ last.pushed = <<[path |-> PathEffA, cursor |-> 1]>>
  /\ FxOf(fx, <<PathEffA, 1>>).runs = 1
  /\ FxOf(fx, <<PathEffA, 2>>).runs = 1
  /\ StoredSlot(context, PathEffA, 2).kind = "effect"

----------------------------------------------------------------------------
(* C4 *)

\* the effect slots registered with an empty dependency list
EmptyDepsSlots(state) ==
  {s \in EffectSlots(state) :
     LET i == MapIndex(state, s[1]) IN state[i].value[s[2] + 1].deps = [list |-> << >>]}

SlotOf(state, s) == state[MapIndex(state, s[1])].value[s[2] + 1]

\* C4 as stated: when a render pass removes the path of an effect registered
\* with [], the effect was executed exactly once and the cleanup it returned
\* is invoked exactly once in that pass.
C4_ExactlyOnce ==
  [][last'.op = "render" =>
       \A s \in EmptyDepsSlots(hooksState) :
         ~MapHas(context'.hooks.state, s[1]) =>
           /\ FxOf(fx, s).runs = 1
           /\ SlotOf(hooksState, s).effect.ret => Count(last'.cleaned, s) = 1
    ]_vars

\* what holds of an effect registered with [] while its path is mounted: it
\* ran at most once and exactly once when no microtask is pending, its
\* cleanup was not invoked, and a cleanup is stored iff it ran and returned one
C4_WhileMounted ==
  \A s \in EmptyDepsSlots(hooksState) :
    /\ FxOf(fx, s).runs <= 1
    /\ FxOf(fx, s).cleanups = 0
    /\ microtasks = << >> => FxOf(fx, s).runs = 1
    /\ SlotOf(hooksState, s).cleanup # NullFn
         <=> (FxOf(fx, s).runs = 1 /\ SlotOf(hooksState, s).effect.ret)

\* C4, amended: an effect registered with [] is executed at most once while
\* its path is mounted, in a flush, and exactly once as soon as the microtask
\* queue is drained; when a render pass removes its path, the cleanup is
\* invoked exactly once in that pass if the effect ran and returned one, and
\* not at all if the path is removed before the flush ran the effect.
C4_OnceIfFlushed ==
  /\ []C4_WhileMounted
  /\ [][/\ \A s \in EmptyDepsSlots(hooksState) :
             Count(last'.ran, s) > 0 => last'.op = "flush" /\ FxOf(fx, s).runs = 0
        /\ last'.op = "render" =>
             \A s \in EmptyDepsSlots(hooksState) :
               ~MapHas(context'.hooks.state, s[1]) =>
                 Count(last'.cleaned, s)
                   = IF FxOf(fx, s).runs = 1 /\ SlotOf(hooksState, s).effect.ret THEN 1 ELSE 0
       ]_vars

\* a render pass removed the component with the [] effect, which had run,
\* and called its cleanup
C4_Witness ==
  /\ last.op = "render"
  /\ <<PathEffA, 2>> \in Range(last.cleaned)
  /\ ~MapHas(hooksState, PathEffA)

----------------------------------------------------------------------------
(* C5 *)

\* C5: effects are executed by the flush microtask only, never by setup, a
\* state updater or a render pass; every effect a flush executes was in the
\* pending queue when the flush started, put there by a render pass that had
\* completed and stored its tree; and when setup returns, the container shows
\* the rendered tree, its effects are queued and none has run.
C5_EffectsDeferred ==
  /\ [](last.ran # << >> => last.op = "flush")
  /\ []((last.op = "setup" /\ ~last.threw) =>
          /\ dom[context.root.container].children = getDomNodes(context.root.instance)
          /\ context.effects.queue = last.pushed
          /\ \A s \in EffectSlots(hooksState) : FxOf(fx, s).runs = 0
          /\ Pending("flush") >= 1)
  /\ [][\A i \in 1..Len(last'.ran) :
          /\ [path |-> last'.ran[i][1], cursor |-> last'.ran[i][2]]
               \in Range(context.effects.queue)
          /\ last.op # "init"
          /\ context'.root.instance = context.root.instance]_vars

\* a flush executed the effects the first render of setup had queued
C5_Witness ==
  /\ last.op = "flush"
  /\ Len(last.ran) = 2
  /\ context.root.instance # NullInst
  /\ ShownText(PathEffA) = "0"

----------------------------------------------------------------------------
(* C6 *)

\* the cleanups stored in the effect slots of one path, in slot order
StoredCleanups(entry) ==
  LET cursors == SelectSeq([j \in 1..Len(entry.value) |-> j],
                           LAMBDA j : /\ entry.value[j].kind = "effect"
                                      /\ entry.value[j].cleanup # NullFn)
  IN [k \in 1..Len(cursors) |-> <<entry.key, cursors[k] - 1>>]

\* C6: a render pass invokes, for each path of the hook store it did not
\* visit, the stored cleanups of the path's effect slots in slot order, and
\* deletes the path's entry; it invokes no other cleanup and keeps the entry
\* of every visited path.  So the paths of the hook store are always among
\* the visited ones.
C6_UnvisitedCollected ==
  /\ [](MapKeys(hooksState) \subseteq context.hooks.visited)
  /\ [][last'.op = "render" =>
          LET unvisited == SelectSeq(hooksState, LAMBDA e : e.key \notin context'.hooks.visited)
          IN /\ last'.cleaned = Flatten([i \in 1..Len(unvisited) |-> StoredCleanups(unvisited[i])])
             /\ \A i \in 1..Len(unvisited) : ~MapHas(context'.hooks.state, unvisited[i].key)
             /\ \A p \in MapKeys(hooksState) \cap context'.hooks.visited :
                  MapHas(context'.hooks.state, p)
       ]_vars

\* a render pass that no longer visited the component with two effects
\* called the cleanups of its slots 1 and 2, in that order, and deleted it
C6_Witness ==
  /\ last.op = "render"
  /\ last.cleaned = <<<<PathEffA, 1>>, <<PathEffA, 2>>>>
  /\ ~MapHas(hooksState, PathEffA)

----------------------------------------------------------------------------
(* C9 *)

\* every slot of a hook store is as a first render leaves it: a state cell
\* holds the initial value 0 and an effect record has no cleanup and has not run
FreshSlots(state, f) ==
  \A i \in 1..Len(state) : \A j \in 1..Len(state[i].value) :
    LET slot == state[i].value[j] IN
      /\ slot.kind \in {"value", "effect"}
      /\ slot.kind = "value" => slot = ValueSlot(0)
      /\ slot.kind = "effect" => slot.cleanup = NullFn /\ FxOf(f, <<state[i].key, j - 1>>).runs = 0

\* C9: when setup returns without throwing, whatever renders and state
\* updates came before and whatever the new root is, the hook state map
\* holds entries of paths visited by the new first render only, every state
\* cell holds its initial value and no effect record carries a cleanup, also
\* at a path used by the previous tree; the container's children are the DOM
\* nodes of the new instance tree, all created by this call.
C9_SetupDiscardsState ==
  [][(last'.op = "setup" /\ ~last'.threw) =>
       LET c == context'.root.container IN
       /\ MapKeys(context'.hooks.state) = context'.hooks.visited
       /\ FreshSlots(context'.hooks.state, fx')
       /\ context'.root.node = last'.call.root
       /\ c = last'.call.container
       /\ dom'[c].children = getDomNodes(context'.root.instance)
       /\ \A h \in Subtree(dom', c) \ {c} : h >= nextId /\ h \notin DOMAIN dom
    ]_vars

\* setup was called again on the same container with the same root while the
\* root component's state cell held 1 and a component with effects was
\* mounted: the cell at the same path holds 0 again and the first
\* alternative is shown
C9_Witness ==
  /\ last.op = "setup" /\ ~last.threw
  /\ last.call.before = ValueSlot(1)
  /\ StoredSlot(context, "", 0) = ValueSlot(0)
  /\ last.call.root = AppA
  /\ ShownText(PathEffA) = "0"

----------------------------------------------------------------------------
(* C10 *)

\* C10: setup throws exactly when the root VNode is null or the container
\* is not an element of the document, and a call that throws leaves the
\* root (container, node, instance), the hook state map, the effect queue,
\* the whole DOM (the previously mounted container and the passed one
\* included), the setters and the microtask queue unchanged.
C10_SetupRejects ==
  [][last'.op = "setup" =>
       /\ last'.threw <=> \/ last'.call.root = NullNode
                          \/ last'.call.container \notin DOMAIN dom
                          \/ dom[last'.call.container].nodeType # "element"
       /\ last'.threw => UNCHANGED <<dom, nextId, context, setters, microtasks, scheduled, memo, fx, turn>>
    ]_vars

\* setup threw on a null root while an application was mounted with hook
\* state and a render pending
C10_Witness ==
  /\ last.op = "setup" /\ last.threw
  /\ last.call.root = NullNode
  /\ context.root.instance # NullInst
  /\ hooksState # << >>
  /\ Pending("render") = 1

----------------------------------------------------------------------------
(* C7 *)

\* the step called reconcile with an instance whose type or key differs
\* from the new VNode's
Replacing == last'.op = "update" /\ (\/ last'.call.prev.node.type # last'.call.node.type
                                     \/ last'.call.prev.node.key # last'.call.node.key)

\* every DOM node the previous instance owned is detached, and no handle of
\* the previous instance is changed otherwise
OldDetachedUntouched ==
  LET prev == last'.call.prev
      owned == Range(getDomNodes(prev))
  IN /\ \A h \in owned : h \notin Range(dom'[last'.call.parent].children)
                         /\ dom'[h].parent = NullDom
     /\ \A h \in HandlesOf(prev) :
          dom'[h] = IF h \in owned THEN [dom[h] EXCEPT !.parent = NullDom] ELSE dom[h]

\* a new instance for the new VNode is returned at the same path
NewInstanceReturned ==
  LET inst == context'.root.instance
  IN /\ inst # NullInst /\ inst # last'.call.prev
     /\ inst.node = last'.call.node
     /\ inst.path = last'.call.path /\ inst.path = last'.call.prev.path

\* C7 as stated: the instance returned by a replacement has a newly created
\* DOM handle.
C7_NewHandle ==
  [][Replacing =>
       /\ OldDetachedUntouched
       /\ NewInstanceReturned
       /\ context'.root.instance.dom # NullDom
       /\ context'.root.instance.dom \notin DOMAIN dom
    ]_vars

\* C7, amended: when the previous instance's type or key differs from the
\* new VNode's, reconcile never updates in place: every DOM node owned by
\* the previous instance is detached from the parent, a new instance is
\* mounted at the same path and returned, every DOM handle of the new
\* instance is newly created and attached under the parent (the instance's
\* own handle is null when the new VNode renders no DOM node: an empty
\* fragment or a component rendering nothing), and no old handle is reused
\* or mutated.
C7_ReplacedNotUpdated ==
  [][Replacing =>
       LET inst == context'.root.instance IN
       /\ OldDetachedUntouched
       /\ NewInstanceReturned
       /\ HandlesOf(inst) \cap DOMAIN dom = {}
       /\ (inst.dom = NullDom) <=> (getDomNodes(inst) = << >>)
       /\ \A h \in Range(getDomNodes(inst)) :
            dom'[h].parent = last'.call.parent /\ h \in Range(dom'[last'.call.parent].children)
    ]_vars

\* a div was replaced by a span under the parent that has another child
C7_Witness ==
  /\ last.op = "update"
  /\ last.call.prev.node.type = HostType("div")
  /\ last.call.node.type = HostType("span")
  /\ last.call.parent = 2
  /\ dom[last.call.prev.dom].tag = "div" /\ dom[last.call.prev.dom].parent = NullDom
  /\ dom[context.root.instance.dom].tag = "span"
  /\ dom[2].children = <<3, context.root.instance.dom>>

----------------------------------------------------------------------------
(* C8 *)

\* C8: for every subtree, parent and path, unmounting with
\* reconcile(parent, instance, null, path) the instance that
\* reconcile(parent, null, node, path) has just mounted leaves the parent's
\* child list as it was before the mount, and no DOM node of the subtree is
\* attached to the parent or below it any more.
C8_MountUnmount ==
  [][(last'.op = "unmount" /\ last.op = "mount") =>
       LET parent == last'.call.parent IN
       /\ context'.root.instance = NullInst
       /\ dom'[parent].children = last.call.before
       /\ HandlesOf(last'.call.prev) \cap Subtree(dom', parent) = {}
       /\ \A h \in Range(getDomNodes(last'.call.prev)) : dom'[h].parent = NullDom
       /\ dom'[parent] = dom[parent] \/ getDomNodes(last'.call.prev) # << >>
    ]_vars

\* a fragment holding an element and a component was mounted under the
\* parent that has another child, and unmounted: the parent holds that
\* child only
C8_Witness ==
  /\ last.op = "unmount" /\ last.call.fresh
  /\ last.call.parent = 2
  /\ Len(getDomNodes(last.call.prev)) = 2
  /\ last.call.prev.node.type = Fragment
  /\ Len(last.call.before) = 3
  /\ dom[2].children = <<3>>

----------------------------------------------------------------------------
(* C11 *)

\* the handle, and the two mappings, of the last updateDomProps call
Updated == last.op = "updateDomProps"
PrevProps == last.call.prev
NextProps_ == last.call.next
Handle == dom[last.call.handle]
LogOf(key) == IF key \in DOMAIN Handle.log THEN Handle.log[key] ELSE << >>

\* the keys present before and absent now, and the keys of the next props
\* whose value is not identity-equal to the previous value
RemovedKeys == PropKeys(PrevProps) \ DOMAIN NextProps_
ChangedKeys == {k \in PropKeys(NextProps_) : PropOf(PrevProps, k) # NextProps_[k]}

\* the keys applied by one call: attributes, the class, properties
IsPlainKey(key, value) == ~IsEventKey(key) /\ ~(key = "style" /\ TypeofObject(value))

RemovalEntry(e) ==
  \/ e.op \in {"removeAttribute", "removeEventListener"}
  \/ e.op = "setProperty" /\ e.value = JsUndefined
  \/ e.op = "setStyle" /\ e.value = Str("")

\* what C11 says of one call
ExactMutations ==
  /\ ~last.threw
  /\ \A k \in DOMAIN Handle.log : k \in RemovedKeys \cup ChangedKeys
  /\ "children" \notin DOMAIN Handle.log
  /\ \A k \in RemovedKeys :
       /\ \A i \in 1..Len(LogOf(k)) : RemovalEntry(LogOf(k)[i])
       /\ IsPlainKey(k, PrevProps[k]) => Len(LogOf(k)) = 1
       /\ IsEventKey(k) => <<EventName(k), PrevProps[k]>> \notin Handle.listeners
       /\ AttrName(k) \notin DOMAIN Handle.attrs
  /\ \A k \in ChangedKeys :
       /\ IsPlainKey(k, NextProps_[k]) =>
            /\ Len(LogOf(k)) = 1
            /\ LogOf(k)[1].op \in {"setAttribute", "setProperty"}
            /\ LogOf(k)[1].value = NextProps_[k]
       /\ IsEventKey(k) =>
            \A i \in 1..Len(LogOf(k)) :
              \/ LogOf(k)[i] = [op |-> "removeEventListener", name |-> EventName(k),
                                value |-> PropOf(PrevProps, k)]
              \/ LogOf(k)[i] = [op |-> "addEventListener", name |-> EventName(k),
                                value |-> NextProps_[k]]
       /\ (k = "style" /\ TypeofObject(NextProps_[k])) =>
            /\ \A i \in 1..Len(LogOf(k)) : LogOf(k)[i].op = "setStyle"
            /\ \A sk \in Range(KeysOfValue(NextProps_[k])) :
                 sk \in DOMAIN Handle.style
                   /\ Handle.style[sk] = EntryOfValue(NextProps_[k], sk)
  /\ \A a \in DOMAIN last.call.before.attrs :
       (\A k \in RemovedKeys \cup ChangedKeys : AttrName(k) # a) =>
         a \in DOMAIN Handle.attrs /\ Handle.attrs[a] = last.call.before.attrs[a]

\* C11: for every pair of previous and next prop mappings, updateDomProps
\* returns having touched exactly the keys present before and absent now
\* (one removal each) and the keys of the next props whose value is not
\* identity-equal to the previous one (one set each, with the next value); a
\* key with an identity-equal value and `children` are not touched.
C11_ExactMutations == Updated => ExactMutations

\* the same for the mappings in which no style is null: the call throws
\* exactly when the style of the next props, changed, is null or the style
\* present before and absent now is null
C11_ExactUnlessNullStyle ==
  Updated =>
    IF \/ "style" \in ChangedKeys /\ NextProps_["style"] = JsNull
       \/ "style" \in RemovedKeys /\ PrevProps["style"] = JsNull
    THEN last.threw
    ELSE ExactMutations

\* {a:1, b:2} -> {a:1, c:3}: b removed, c set, a untouched
C11_Witness ==
  /\ Updated
  /\ PrevProps = [a |-> Num(1), b |-> Num(2)]
  /\ NextProps_ = [a |-> Num(1), c |-> Num(3)]
  /\ Handle.log = [b |-> <<[op |-> "removeAttribute", name |-> "b"]>>,
                   c |-> <<[op |-> "setAttribute", name |-> "c", value |-> Num(3)]>>]
  /\ Handle.attrs = [a |-> Num(1), c |-> Num(3)]

----------------------------------------------------------------------------
(* C12 *)

Made == last.op = "createElement"

TextOf(string) ==
  [type |-> TEXT_ELEMENT, key |-> NullKey,
   props |-> [children |-> << >>, nodeValue |-> string]]

\* the children a raw list stands for: its values from left to right, the
\* values of an array in the place of the array
RECURSIVE ChildrenFor(_)
ChildrenFor(items) ==
  IF items = << >> THEN << >>
  ELSE LET x == Head(items)
       IN (IF IsVNode(x) THEN <<x>>
           ELSE IF x.t = "array" THEN ChildrenFor(x.items)
           ELSE IF x.t = "str" THEN <<TextOf(x.s)>>
           ELSE IF x.t = "num" THEN <<TextOf(ToString(x.n))>>
           ELSE << >>) \o ChildrenFor(Tail(items))

\* C12: createElement stores as props.children the raw children in their
\* left-to-right order, arrays opened to any depth, null, undefined and
\* booleans dropped, strings and numbers as Text VNodes of the stringified
\* value without children, VNodes unchanged; the key of the props becomes the
\* key of the VNode and is no entry of the stored props, whose other entries
\* are kept
C12_ChildrenNormalised ==
  Made =>
    LET c == last.call
        given == IF c.originProps = JsNull THEN EmptyProps ELSE c.originProps
    IN /\ c.result.type = c.type
       /\ ChildrenOf(c.result.props) = ChildrenFor(c.rawChildren)
       /\ Len(c.rawChildren) > 0 => "children" \in DOMAIN c.result.props
       /\ "key" \notin DOMAIN c.result.props
       /\ c.result.key = (IF "key" \in DOMAIN given /\ given.key # JsNull
                          THEN <<given.key.s>> ELSE NullKey)
       /\ \A prop \in DOMAIN given \ {"key"} : c.result.props[prop] = given[prop]
       /\ DOMAIN c.result.props \subseteq (DOMAIN given \cup {"children"}) \ {"key"}

C12_Witness ==
  /\ Made
  /\ last.call.type = Fragment
  /\ last.call.rawChildren =
       <<Arr(2, <<Str("x"), Arr(1, <<Num(5), JsNull>>)>>), Bool(TRUE)>>
  /\ last.call.result =
       [type |-> Fragment, key |-> <<"k">>,
        props |-> [id |-> Str("m"), children |-> <<TextOf("x"), TextOf("5")>>]]

----------------------------------------------------------------------------
(* C13 *)

\* a render pass has just ended: the synchronous one of setup, or a
\* deferred one
Rendered == last.op \in {"setup", "render"} /\ last.renders > 0

\* the instances of an instance tree in document order, null children left out
RECURSIVE InstancesOf(_)
InstancesOf(instance) ==
  IF instance = NullInst THEN << >>
  ELSE <<instance>> \o Flatten([i \in 1..Len(instance.children) |->
                                  InstancesOf(instance.children[i])])

TreeInstances == InstancesOf(context.root.instance)

\* two unkeyed sibling VNodes whose types are different functions of one name
SameNameSiblings(instance) ==
  LET nodes == ChildrenOf(instance.node.props)
  IN \E i, j \in 1..Len(nodes) :
       /\ i < j
       /\ nodes[i] # NullNode /\ nodes[j] # NullNode
       /\ nodes[i].key = NullKey /\ nodes[j].key = NullKey
       /\ IsFunction(nodes[i].type) /\ IsFunction(nodes[j].type)
       /\ nodes[i].type # nodes[j].type
       /\ nodes[i].type.name = nodes[j].type.name

\* C13: after every render pass no two instances of the instance tree have
\* the same path, so no two mounted components share a hook state entry,
\* whatever the tree: components of two functions of one name, keyed siblings
C13_UniquePaths ==
  Rendered =>
    \A i, j \in 1..Len(TreeInstances) :
      i # j => TreeInstances[i].path # TreeInstances[j].path

\* what the code guarantees: paths are unique in a tree without unkeyed
\* sibling components of two functions of one name
C13_UniqueUnlessSameName ==
  (Rendered /\ \A i \in 1..Len(TreeInstances) : ~SameNameSiblings(TreeInstances[i])) =>
    \A i, j \in 1..Len(TreeInstances) :
      i # j => TreeInstances[i].path # TreeInstances[j].path

\* two Item components of different functions are mounted as siblings, and
\* the second shows the state of the first
C13_Witness ==
  /\ Rendered
  /\ \E i, j \in 1..Len(TreeInstances) :
       /\ i < j
       /\ TreeInstances[i].node = ItemNode(FnItem, 1)
       /\ TreeInstances[j].node = ItemNode(FnItemToo, 2)
       /\ TreeInstances[i].path = TreeInstances[j].path
       /\ Len(TreeInstances[j].children) = 1
       /\ dom[dom[TreeInstances[j].children[1].dom].children[1]].text = "1"

----------------------------------------------------------------------------
(* C14 *)

\* the DOM nodes below an instance, in child order, read from the host and
\* text instances alone
RECURSIVE OwnedDom(_)
OwnedDom(instance) ==
  IF instance = NullInst THEN << >>
  ELSE IF instance.kind \in {"host", "text"}
  THEN (IF instance.dom # NullDom THEN <<instance.dom>> ELSE << >>)
  ELSE Flatten([i \in 1..Len(instance.children) |-> OwnedDom(instance.children[i])])

FirstOwned(instance) ==
  IF OwnedDom(instance) = << >> THEN NullDom ELSE Head(OwnedDom(instance))

\* C14: after every render pass the dom of every Fragment and Component
\* instance is the first DOM handle among its descendants in child order,
\* and null when there is none
C14_FirstDom ==
  Rendered =>
    \A i \in 1..Len(TreeInstances) :
      TreeInstances[i].kind \in {"fragment", "component"} =>
        TreeInstances[i].dom = FirstOwned(TreeInstances[i])

\* a deferred render has left a fragment whose first child, a component,
\* has no DOM node and whose handle is that of its second child
C14_Witness ==
  /\ Rendered /\ last.op = "render"
  /\ \E i \in 1..Len(TreeInstances) :
       /\ TreeInstances[i].kind = "fragment"
       /\ Len(TreeInstances[i].children) = 2
       /\ TreeInstances[i].children[1].kind = "component"
       /\ TreeInstances[i].children[1].dom = NullDom
       /\ TreeInstances[i].dom = TreeInstances[i].children[2].dom
       /\ TreeInstances[i].dom # NullDom

----------------------------------------------------------------------------
(* C15 *)

\* a deferred render pass has just ended
Rerendered == last.op = "render" /\ last.renders > 0

\* the state cells (path, cursor) that the pass found and that exist after it
KeptCells ==
  {cell \in {<<last.call.hooks[i].key, c>> :
               i \in 1..Len(last.call.hooks), c \in 0..1} :
     /\ cell[2] < Len(MapGet(last.call.hooks, cell[1]))
     /\ ~IsEffectHook(StoredSlotIn(last.call.hooks, cell[1], cell[2]))
     /\ MapHas(hooksState, cell[1])}

\* the cells that held a written undefined when the pass began
UndefinedCells ==
  {cell \in KeptCells : StoredSlotIn(last.call.hooks, cell[1], cell[2]) = UndefinedSlot}

\* C15: a state hook initialises its slot on its first invocation only; a
\* later render of the mounted component returns the value the updater wrote
\* last and does not apply the initial value again, whatever was written
C15_InitialisedOnce ==
  Rerendered =>
    \A cell \in KeptCells :
      StoredSlotIn(hooksState, cell[1], cell[2])
        = StoredSlotIn(last.call.hooks, cell[1], cell[2])

\* what the code does: the same for every written value but undefined
C15_OnceUnlessUndefined ==
  Rerendered =>
    \A cell \in KeptCells \ UndefinedCells :
      StoredSlotIn(hooksState, cell[1], cell[2])
        = StoredSlotIn(last.call.hooks, cell[1], cell[2])

\* an Item of initial value 2 whose state the updater set to 1 has been
\* rendered again and shows 1
C15_Witness ==
  /\ Rerendered
  /\ \E i \in 1..Len(TreeInstances) :
       /\ TreeInstances[i].node = ItemNode(FnItem, 2)
       /\ <<TreeInstances[i].path, 0>> \in KeptCells
       /\ StoredSlotIn(hooksState, TreeInstances[i].path, 0) = ValueSlot(1)
       /\ dom[dom[TreeInstances[i].dom].children[1]].text = "1"

----------------------------------------------------------------------------
(* C16 *)

\* C16: a memoised component invokes the wrapped component only when it has
\* not invoked it before or when the new props are not equal, under its
\* equals function, to the props of the last invocation; otherwise it
\* returns the VNode the last invocation returned
C16_MemoSkipsEqualProps ==
  \A i \in 1..Len(last.memoized) :
    LET e == last.memoized[i]
    IN /\ e.called <=> (e.prior = NullCache \/ ~equals(e.self, e.prior.props, e.props))
       /\ ~e.called => e.result = e.prior.result

\* a deferred render has called the memoised Item twice: with the props
\* of its last invocation (not invoked), and with other props (invoked)
C16_Witness ==
  /\ last.op = "render"
  /\ \E i, j \in 1..Len(last.memoized) :
       /\ i < j
       /\ last.memoized[i].self = FnMemoItem /\ last.memoized[j].self = FnMemoItem
       /\ ~last.memoized[i].called
       /\ last.memoized[i].prior # NullCache
       /\ last.memoized[i].result = last.memoized[i].prior.result
       /\ last.memoized[j].called
       /\ last.memoized[j].prior.props # last.memoized[j].props

----------------------------------------------------------------------------
(* C17 *)

\* setDomProps or updateDomProps has returned
PropsApplied == last.op \in {"setDomProps", "updateDomProps"} /\ ~last.threw

\* the listeners the latest props ask for
WantedListeners ==
  {<<EventName(key), NextProps_[key]>> :
     key \in {k \in PropKeys(NextProps_) : IsEventKey(k) /\ NextProps_[k].t = "fn"}}

\* C17: after the mount of a host element and after any sequence of prop
\* updates its listeners are exactly the handlers of the latest props, none
\* for an absent or falsy handler; a handler whose reference changed is
\* removed by the reference attached before and then the new one is added,
\* and a handler whose reference did not change is neither removed nor added
C17_LatestHandlers ==
  PropsApplied =>
    /\ Handle.listeners = WantedListeners
    /\ Updated =>
         \A key \in {k \in PropKeys(NextProps_) : IsEventKey(k)} :
           LET prevValue == PropOf(PrevProps, key)
               nextValue == NextProps_[key]
           IN /\ prevValue = nextValue => LogOf(key) = << >>
              /\ (prevValue # nextValue /\ prevValue.t = "fn" /\ nextValue.t = "fn") =>
                   LogOf(key) = <<[op |-> "removeEventListener", name |-> EventName(key),
                                   value |-> prevValue],
                                  [op |-> "addEventListener", name |-> EventName(key),
                                   value |-> nextValue]>>

\* an update has replaced the click handler 1 by the click handler 2
C17_Witness ==
  /\ PropsApplied /\ Updated
  /\ PropOf(PrevProps, "onClick") = Fn(1)
  /\ PropOf(NextProps_, "onClick") = Fn(2)
  /\ Handle.listeners = {<<"click", Fn(2)>>}

----------------------------------------------------------------------------
(* C18 *)

\* the instance tree the deferred render started from
PreviousTree == last.call.instance

ChildAt(children, i) == IF i <= Len(children) THEN children[i] ELSE NullInst

\* a DOM node that is in no parent any more
Removed(h) == h \notin DOMAIN dom \/ dom[h].parent = NullDom

\* old and new are the instances at one position before and after the pass:
\* an element or fragment updated in place has one child entry per child
\* VNode, entry i being the outcome of old child i (or none) against child
\* VNode i: the same DOM node when type and key agree, a new one otherwise;
\* the DOM nodes of the old children beyond the new count are removed
RECURSIVE PairedByIndex(_, _)
PairedByIndex(old, new) ==
  IF new = NullInst THEN TRUE
  ELSE IF old = NullInst \/ MustReplace(old, new.node)
  THEN /\ new.kind \in {"host", "text"} => new.dom \notin HandlesOf(PreviousTree)
       /\ \A i \in 1..Len(new.children) : PairedByIndex(NullInst, new.children[i])
  ELSE /\ new.kind \in {"host", "text"} => new.dom = old.dom
       /\ new.kind \in {"host", "fragment"} =>
            /\ Len(new.children) = Len(ChildrenOf(new.node.props))
            /\ \A i \in 1..Len(new.children) :
                 /\ new.children[i] # NullInst
                 /\ new.children[i].node = ChildrenOf(new.node.props)[i]
            /\ \A i \in (Len(new.children) + 1)..Len(old.children) :
                 \A k \in 1..Len(getDomNodes(old.children[i])) :
                   Removed(getDomNodes(old.children[i])[k])
       /\ \A i \in 1..Len(new.children) :
            PairedByIndex(ChildAt(old.children, i), new.children[i])

\* C18: on the update of an element or a fragment the new children list has
\* one entry per new child VNode, entry i being the reconciliation of the
\* new child i with the old child of index i, or with nothing when there is
\* none, and every old child of an index beyond the new count has all its
\* DOM nodes removed
C18_ChildrenByIndex ==
  Rerendered => PairedByIndex(PreviousTree, context.root.instance)

\* a deferred render has updated an element from three children to two
\* keyed ones that swapped their places: both are new DOM nodes, the third
\* old child is removed
C18_Witness ==
  /\ Rerendered
  /\ PreviousTree # NullInst /\ context.root.instance # NullInst
  /\ Len(PreviousTree.children) = 1 /\ Len(context.root.instance.children) = 1
  /\ LET old == PreviousTree.children[1]
         new == context.root.instance.children[1]
     IN /\ old.kind = "host" /\ new.kind = "host" /\ old.dom = new.dom
        /\ Len(old.children) = 3 /\ Len(new.children) = 2
        /\ new.children[1].key = <<"k1">> /\ old.children[1].key = <<"k2">>
        /\ new.children[1].dom \notin HandlesOf(PreviousTree)
        /\ Removed(old.children[3].dom)
        /\ dom[new.dom].children = <<new.children[1].dom, new.children[2].dom>>

----------------------------------------------------------------------------
(* C19 *)

\* an entry of the queue whose path has hook state holding an effect record
\* at the entry's cursor
IsLiveEntry(state, entry) ==
  MapHas(state, entry.path) /\ IsEffectHook(StoredSlotIn(state, entry.path, entry.cursor))

SlotOfEntry(entry) == <<entry.path, entry.cursor>>

\* how many of the first n events are calls of the effect of a slot
EffectsBefore(events, n, slot) ==
  Cardinality({k \in 1..n : events[k] = [ev |-> "effect", slot |-> slot]})

\* C19: flushEffects empties the queue and goes through the drained entries
\* in the order of queueing; an entry whose path has no hook state or whose
\* slot is no effect record is skipped; for every other entry the stored
\* cleanup, if there is one, is called right before the effect, and what the
\* effect returns, or null, is the stored cleanup afterwards
C19_FlushInOrder ==
  [][last'.op = "flush" =>
       LET queue == context.effects.queue
           state == context.hooks.state
           events == last'.events
           calls == SelectSeq(events, LAMBDA e : e.ev # "cleanup")
       IN /\ context'.effects.queue = << >>
          /\ Len(calls) = Len(queue)
          /\ \A i \in 1..Len(queue) :
               calls[i] = [ev |-> IF IsLiveEntry(state, queue[i]) THEN "effect" ELSE "skip",
                           slot |-> SlotOfEntry(queue[i])]
          /\ \A i \in 1..Len(events) :
               /\ events[i].ev = "cleanup" =>
                    i < Len(events) /\ events[i + 1] = [ev |-> "effect", slot |-> events[i].slot]
               /\ events[i].ev = "effect" =>
                    LET slot == events[i].slot
                        hook == StoredSlotIn(state, slot[1], slot[2])
                        stored == IF EffectsBefore(events, i - 1, slot) = 0 THEN hook.cleanup
                                  ELSE RunEffect(hook.effect)
                    IN /\ (stored # NullFn) <=>
                            (i > 1 /\ events[i - 1] = [ev |-> "cleanup", slot |-> slot])
                       /\ StoredSlotIn(context'.hooks.state, slot[1], slot[2]).cleanup
                            = RunEffect(hook.effect)
          /\ \A i \in 1..Len(queue) :
               ~MapHas(state, queue[i].path) => ~MapHas(context'.hooks.state, queue[i].path)]_vars

\* a flush of a queue filled by two render passes has called the effects of
\* cursors 1 and 2 of one component, neither with a stored cleanup, and then
\* the effect of cursor 1 again, right after the cleanup its first run stored
C19_Witness ==
  /\ last.op = "flush"
  /\ \E path \in MapKeys(hooksState) :
       last.events = <<[ev |-> "effect", slot |-> <<path, 1>>],
                       [ev |-> "effect", slot |-> <<path, 2>>],
                       [ev |-> "cleanup", slot |-> <<path, 1>>],
                       [ev |-> "effect", slot |-> <<path, 1>>]>>

\* a flush has skipped an entry whose component was unmounted before it ran
C19_Skipped ==
  /\ last.op = "flush"
  /\ \E i \in 1..Len(last.events) :
       last.events[i].ev = "skip" /\ ~MapHas(hooksState, last.events[i].slot[1])

----------------------------------------------------------------------------
(* C20 *)

\* the DOM nodes of a list of child instances, in index order, fragments and
\* components expanded
NodesOfChildren(children) ==
  Flatten([i \in 1..Len(children) |-> OwnedDom(children[i])])

\* the handles with child instances: every element instance, and the root
\* container with the root instance as its only child
Parents ==
  {[handle |-> TreeInstances[i].dom, nodes |-> NodesOfChildren(TreeInstances[i].children)] :
     i \in {k \in 1..Len(TreeInstances) : TreeInstances[k].kind = "host"}}
  \cup {[handle |-> context.root.container, nodes |-> OwnedDom(context.root.instance)]}

\* C20: after every render pass the DOM children of every element instance
\* and of the root container are, in this order, the DOM nodes of its child
\* instances; also after a child in the middle was replaced and after a
\* fragment or component followed by later siblings gained DOM nodes
C20_DomOrder ==
  Rendered => \A p \in Parents : dom[p.handle].children = p.nodes

\* what the code guarantees: the same nodes, in some order, after every
\* pass, and the order of the child instances after the pass of setup
C20_SameNodes ==
  Rendered =>
    \A p \in Parents :
      /\ Range(dom[p.handle].children) = Range(p.nodes)
      /\ Len(dom[p.handle].children) = Len(p.nodes)
      /\ last.op = "setup" => dom[p.handle].children = p.nodes

\* a deferred render has replaced the middle one of three elements: the new
\* element is the last DOM child of the parent
C20_Witness ==
  /\ Rerendered
  /\ \E i \in 1..Len(TreeInstances) :
       LET x == TreeInstances[i]
       IN /\ x.kind = "host" /\ Len(x.children) = 3
          /\ x.children[2].node.type = HostType("p")
          /\ dom[x.dom].children = <<x.children[1].dom, x.children[3].dom, x.children[2].dom>>

\* a deferred render has given a fragment its first DOM nodes: they follow
\* the DOM node of the fragment's later sibling
C20_WitnessFragment ==
  /\ Rerendered
  /\ \E i \in 1..Len(TreeInstances) :
       LET x == TreeInstances[i]
       IN /\ x.kind = "host" /\ Len(x.children) = 2
          /\ x.children[1].kind = "fragment" /\ Len(x.children[1].children) = 2
          /\ dom[x.dom].children = <<x.children[2].dom>> \o OwnedDom(x.children[1])

----------------------------------------------------------------------------
(* C21 *)

\* the component instances the pass mounted at a position whose old instance
\* had another type: old and new are the instances of one position before
\* and after the pass
RECURSIVE Remounted(_, _)
Remounted(old, new) ==
  IF new = NullInst \/ old = NullInst THEN {}
  ELSE IF MustReplace(old, new.node)
  THEN IF new.kind = "component" /\ old.node.type # new.node.type THEN {new} ELSE {}
  ELSE UNION {Remounted(ChildAt(old.children, i), new.children[i]) :
                i \in 1..Len(new.children)}

\* the initial value a component function gives its state hook
InitialOf(node) == IF node.type = FnSel THEN 0 ELSE node.props.init

\* the pass found a state entry of the path, or mounted two instances at it
HeldBefore(path) ==
  \/ MapHas(last.call.hooks, path)
  \/ \E i, j \in 1..Len(TreeInstances) :
       i < j /\ TreeInstances[i].path = path /\ TreeInstances[j].path = path

\* C21: a component mounted in place of an instance of another type starts
\* with fresh hook state: its state hook returns its initial value, which an
\* Item then shows, and not a value the component mounted at that path
\* before had stored
C21_FreshOnRemount ==
  Rerendered =>
    \A x \in Remounted(PreviousTree, context.root.instance) :
      /\ StoredSlotIn(hooksState, x.path, 0) = ValueSlot(InitialOf(x.node))
      /\ x.node.type \in {FnItem, FnItemToo} =>
           dom[dom[x.dom].children[1]].text = ToString(InitialOf(x.node))

\* what the code does: the state is fresh when the hook state held no entry
\* of that path when the pass began and no sibling shares the path
C21_FreshUnlessPathHeld ==
  Rerendered =>
    \A x \in Remounted(PreviousTree, context.root.instance) :
      ~HeldBefore(x.path) =>
        /\ StoredSlotIn(hooksState, x.path, 0) = ValueSlot(InitialOf(x.node))
        /\ x.node.type \in {FnItem, FnItemToo} =>
             dom[dom[x.dom].children[1]].text = ToString(InitialOf(x.node))

\* a deferred render has mounted the Item of the second function and of
\* initial value 2 under the key k1 of the Item of the first function, whose
\* state was 1: the new Item shows 1, in a new DOM node
C21_Witness ==
  /\ Rerendered
  /\ \E x \in Remounted(PreviousTree, context.root.instance) :
       /\ x.node = KeyedItem(FnItemToo, "k1", 2)
       /\ StoredSlotIn(last.call.hooks, x.path, 0) = ValueSlot(1)
       /\ StoredSlotIn(hooksState, x.path, 0) = ValueSlot(1)
       /\ dom[x.dom].tag = "span"
       /\ x.dom \notin HandlesOf(PreviousTree)
       /\ dom[dom[x.dom].children[1]].text = "1"

----------------------------------------------------------------------------
(* C22 *)

\* the cleanups stored in the effect slots of a hook store
AllStoredCleanups(state) == Flatten([i \in 1..Len(state) |-> StoredCleanups(state[i])])

\* C22: when setup replaces a mounted root, it invokes the stored cleanup of
\* every effect slot of the previous tree before it discards the hook state:
\* no cleanup is lost by a second setup
C22_SetupRunsCleanups ==
  [][(last'.op = "setup" /\ ~last'.threw) =>
       Range(AllStoredCleanups(hooksState)) \subseteq Range(last'.cleaned)]_vars

\* what the code does: every path of the hook state is still marked visited
\* when setup calls cleanupUnusedHooks, so setup invokes no cleanup at all
C22_SetupRunsNoCleanup ==
  [][(last'.op = "setup" /\ ~last'.threw) =>
       /\ MapKeys(hooksState) \subseteq context.hooks.visited
       /\ last'.cleaned = << >>]_vars

\* a second setup has discarded the hook state of a tree whose component had
\* stored the cleanups of its two effects, and has invoked neither
C22_Witness ==
  /\ last.op = "setup" /\ ~last.threw
  /\ last.call.cleanups = <<<<PathEffA, 1>>, <<PathEffA, 2>>>>
  /\ last.cleaned = << >>
  /\ \A i \in 1..Len(hooksState) : StoredCleanups(hooksState[i]) = << >>

----------------------------------------------------------------------------
(* C23 *)

\* the component instances the pass updated in place: old and new are the
\* instances of one position before and after the pass
RECURSIVE KeptComponents(_, _)
KeptComponents(old, new) ==
  IF new = NullInst \/ old = NullInst THEN {}
  ELSE IF MustReplace(old, new.node) THEN {}
  ELSE (IF new.kind = "component" THEN {new} ELSE {})
       \cup UNION {KeptComponents(ChildAt(old.children, i), new.children[i]) :
                     i \in 1..Len(new.children)}

\* the output of a component shows the value v of its state: Sel renders the
\* alternative of index v, an Item the text of v
ShowsValue(x, v) ==
  IF x.node.type = FnSel
  THEN LET shown == x.node.props.alts[(v % Len(x.node.props.alts)) + 1]
       IN IF shown = NullNode THEN x.children = << >>
          ELSE Len(x.children) = 1 /\ x.children[1].node = shown
  ELSE x.dom # NullDom /\ dom[dom[x.dom].children[1]].text = ToString(v)

\* the value the updaters left in the state cell of a component when the
\* pass began
WrittenBefore(x) == StoredSlotIn(last.call.hooks, x.path, 0)

\* C23: the render pass that follows the write of a state cell of a mounted
\* component invokes the component again with the written value, and the
\* rendered output shows it, also when the component is wrapped by memo and
\* its props did not change
C23_UpdateRendered ==
  Rerendered =>
    \A x \in KeptComponents(PreviousTree, context.root.instance) :
      WrittenBefore(x).kind = "value" =>
        /\ StoredSlotIn(hooksState, x.path, 0) = WrittenBefore(x)
        /\ ShowsValue(x, WrittenBefore(x).value)

\* what the code does: the same for every component that memo does not wrap
C23_RenderedUnlessMemoized ==
  Rerendered =>
    \A x \in KeptComponents(PreviousTree, context.root.instance) :
      (WrittenBefore(x).kind = "value" /\ ~IsMemoized(x.node.type)) =>
        /\ StoredSlotIn(hooksState, x.path, 0) = WrittenBefore(x)
        /\ ShowsValue(x, WrittenBefore(x).value)

\* a deferred render has updated a memoised Item of initial value 1 whose
\* state an updater had set to 0: the wrapped function was not invoked, the
\* cell holds 0 and the Item still shows 1
C23_Witness ==
  /\ Rerendered
  /\ \E x \in KeptComponents(PreviousTree, context.root.instance) :
       /\ x.node = MemoNode(FnMemoItem, 1)
       /\ WrittenBefore(x) = ValueSlot(0)
       /\ StoredSlotIn(hooksState, x.path, 0) = ValueSlot(0)
       /\ \E i \in 1..Len(last.memoized) :
            /\ last.memoized[i].self = FnMemoItem
            /\ last.memoized[i].props = x.node.props
            /\ ~last.memoized[i].called
       /\ \A i \in 1..Len(last.memoized) : ~last.memoized[i].called
       /\ dom[dom[x.dom].children[1]].text = "1"

\* a deferred render has updated an Item that memo does not wrap, of initial
\* value 1 and of state 0: it shows 0
C23_WitnessPlain ==
  /\ Rerendered
  /\ \E x \in KeptComponents(PreviousTree, context.root.instance) :
       /\ x.node.type = FnItem /\ x.node.props.init = 1
       /\ WrittenBefore(x) = ValueSlot(0)
       /\ dom[dom[x.dom].children[1]].text = "0"

----------------------------------------------------------------------------
(* C24 *)

\* C24: a state updater called when the hook state has no entry of its path
\* any more, its component being unmounted and collected, does nothing: it
\* does not call a functional argument, creates and writes no hook state
\* entry and enqueues no render
C24_DeadSetterIsNoOp ==
  [][(last'.op = "setState" /\ ~last'.call.live) =>
       /\ ~last'.applied /\ ~last'.wrote
       /\ context' = context
       /\ ~MapHas(context'.hooks.state, last'.call.path)
       /\ microtasks' = microtasks
       /\ scheduled' = scheduled
       /\ dom' = dom]_vars

\* the updater of a component that a render pass no longer visited was
\* called with (prev) => prev + 1: its path has no entry and nothing is
\* pending
C24_Witness ==
  /\ last.op = "setState" /\ ~last.call.live
  /\ last.call.path = PathEffA /\ last.call.arg.kind = "fn"
  /\ ~last.applied
  /\ ~MapHas(hooksState, PathEffA)
  /\ context.root.instance # NullInst
  /\ microtasks = << >>

\* the updater of a mounted component was called with (prev) => prev + 1 and
\* the function was called
C24_WitnessLive ==
  /\ last.op = "setState" /\ last.call.live /\ last.applied /\ last.wrote

----------------------------------------------------------------------------
(* C25 *)

\* a and b are the same reference, or have the same own keys with
\* Object.is-equal values
SameEntries(a, b) ==
  \/ a.ref = b.ref
  \/ /\ DOMAIN a.entries = DOMAIN b.entries
     /\ \A key \in DOMAIN a.entries : ObjectIs(a.entries[key], b.entries[key])

HasUndefined(a) == \E key \in DOMAIN a.entries : a.entries[key] = Undefined

\* C25: shallowEquals is symmetric and exact on plain objects and arrays,
\* keys of value undefined included: shallowEquals(a, b) is
\* shallowEquals(b, a), and it is true only when a and b are Object.is-equal
\* or have the same own keys with Object.is-equal values
C25_SymmetricExact ==
  last.op = "shallowEquals" =>
    /\ last.call.result = last.call.reversed
    /\ last.call.result <=> SameEntries(last.call.a, last.call.b)

\* what the code does: the same when no entry of a is undefined
C25_ExactUnlessUndefined ==
  (last.op = "shallowEquals" /\ ~HasUndefined(last.call.a)) =>
    /\ last.call.result <=> SameEntries(last.call.a, last.call.b)
    /\ ~HasUndefined(last.call.b) => last.call.result = last.call.reversed

\* { a: undefined } and { b: 1 } were compared: equal in this order, not
\* equal in the other
C25_Witness ==
  /\ last.op = "shallowEquals"
  /\ last.call.a.entries = [key \in {"a"} |-> Undefined]
  /\ last.call.b.entries = [key \in {"b"} |-> 1]
  /\ last.call.result /\ ~last.call.reversed

\* two objects of the same two entries, one of them undefined, were compared
C25_WitnessEqual ==
  /\ last.op = "shallowEquals"
  /\ last.call.a.ref # last.call.b.ref
  /\ last.call.a.entries = [key \in {"a", "0"} |-> IF key = "a" THEN Undefined ELSE 1]
  /\ last.call.b.entries = last.call.a.entries
  /\ last.call.result /\ last.call.reversed

====
